---- MODULE Spec2Model ----
(***************************************************************************)
(* A model of three Sverchok nodes:                                        *)
(*   SvBendAlongSurfaceNode (nodes/modifier_change/bend_along_surface.py)  *)
(*   SvSelectSolidNode      (nodes/solid/solid_select.py)                  *)
(*   SvVectorMathNodeMK2    (nodes/vertex/math_mk2.py)                     *)
(* and of the operators that make and edit node groups in a node tree      *)
(* (utils/group_tools.py).                                                 *)
(* Each behaviour follows the host updating one node: process() runs over  *)
(* the batch the input sockets hold, one loop iteration per step, and sets *)
(* the output sockets after the loop.  A Python exception ends process()   *)
(* and is recorded in exc under the name of its class.                     *)
(*                                                                         *)
(* Numbers are exact rationals <<n, d>> in lowest terms with d > 0 (the    *)
(* code computes in floats); an output coordinate of the bend is a value   *)
(* a + b * sqrt(r), written <<a, b, r>>.                                   *)
(***************************************************************************)
EXTENDS Integers, Sequences, FiniteSets, TLC

VARIABLES
    node,              \* the node whose process() the host runs
    pc,                \* position in process(): idle, loop, done, returned, raised
    idx,               \* 1-based position of the loop in the batch
    exc,               \* class of the exception that ended process(), or "None"
    out_linked,        \* any(socket.is_linked for socket in self.outputs)
    sets,              \* number of sv_set calls of this run of process()
    \* ---- SvBendAlongSurfaceNode
    orient_axis_,      \* "X", "Y" or "Z"
    autoscale,
    mode,              \* "SPL" or "LIN"
    vertices_linked,   \* self.inputs['Vertices'].is_linked
    vertices_s,        \* data of input socket Vertices: a batch of source grids
    surfaces,          \* data of input socket Surface: one surface grid
    result_vertices,   \* process()'s local list of finished grids
    out_Vertices,      \* output socket Vertices: [set, data]
    \* ---- SvSelectSolidNode
    element_type,      \* "VERTS", "EDGES" or "FACES"
    criteria_type,
    include_partial,
    solid_s,           \* data of input socket Solid, nesting level 2
    direction,         \* the one vector of socket Direction
    center,            \* the one vector of socket Center
    percent,
    radius,
    jdx,               \* 1-based position of the inner loop
    mask_new,          \* inner-loop lists: [v, e, f], each a sequence of masks
    mask_out,          \* outer-loop lists: [v, e, f]
    out_Masks,         \* output sockets VerticesMask, EdgesMask, FacesMask: [set, v, e, f]
    \* ---- SvVectorMathNodeMK2
    current_op,
    inputs,            \* socket types of self.inputs, in order
    outputs,           \* socket types of self.outputs, in order
    input_one,         \* data of inputs[0]
    input_two,         \* data of inputs[1]: [kind, data], kind "v" or "s"
    out_Out,           \* output socket Out: [set, data]
    \* ---- the group operators on the node tree ng of the editor
    ops,               \* number of operator executions so far
    operator,          \* class of the operator executed last, or "None"
    status,            \* what it returned: "FINISHED", "CANCELLED", or "None"
    nodes,             \* the local nodes of execute
    ng_nodes,          \* ng.nodes
    ng_select,         \* the nodes of ng with select set
    ng_links,          \* ng.links, in order
    ng_frozen,         \* whether ng is frozen
    ng_sockets,        \* the sockets made with inputs.new and outputs.new
    ng_parent,         \* <<n, frame>> for n.parent = frame
    ng_keys,           \* custom properties of ng: the group of each frame, "Group Node"
    group_name,        \* <<n, i>> for n.group_name naming node_groups[i]
    node_groups        \* bpy.data.node_groups: the content of each group tree

vars == <<node, pc, idx, exc, out_linked, sets,
          orient_axis_, autoscale, mode, vertices_linked, vertices_s, surfaces,
          result_vertices, out_Vertices,
          element_type, criteria_type, include_partial, solid_s, direction, center,
          percent, radius, jdx, mask_new, mask_out, out_Masks,
          current_op, inputs, outputs, input_one, input_two, out_Out,
          ops, operator, status, nodes, ng_nodes, ng_select, ng_links, ng_frozen,
          ng_sockets, ng_parent, ng_keys, group_name, node_groups>>

bendVars == <<orient_axis_, autoscale, mode, vertices_linked, vertices_s, surfaces,
              result_vertices, out_Vertices>>

selectVars == <<element_type, criteria_type, include_partial, solid_s, direction, center,
                percent, radius, jdx, mask_new, mask_out, out_Masks>>

mathVars == <<current_op, inputs, outputs, input_one, input_two, out_Out>>

groupVars == <<ops, operator, status, nodes, ng_nodes, ng_select, ng_links, ng_frozen,
               ng_sockets, ng_parent, ng_keys, group_name, node_groups>>

\* Largest number of batch elements an input socket holds.
MaxBatch == 2

\* Largest number of executions of the group operators in a behaviour.
MaxOps == 3

----------------------------------------------------------------------------
(* Exact arithmetic *)

Abs(x) == IF x < 0 THEN -x ELSE x

Sign(x) == IF x < 0 THEN -1 ELSE IF x > 0 THEN 1 ELSE 0

RECURSIVE GCD(_, _)
GCD(a, b) == IF b = 0 THEN a ELSE GCD(b, a % b)

\* The rational n/d (d # 0) in lowest terms with a positive denominator.
Q(n, d) ==
    LET g == GCD(Abs(n), Abs(d))
        s == IF d < 0 THEN -1 ELSE 1
    IN  <<(s * n) \div g, (s * d) \div g>>

RAdd(a, b) == Q(a[1] * b[2] + b[1] * a[2], a[2] * b[2])
RSub(a, b) == Q(a[1] * b[2] - b[1] * a[2], a[2] * b[2])
RMul(a, b) == Q(a[1] * b[1], a[2] * b[2])
RDiv(a, b) == Q(a[1] * b[2], a[2] * b[1])
RLess(a, b) == a[1] * b[2] < b[1] * a[2]
RLeq(a, b) == a[1] * b[2] <= b[1] * a[2]
RZero == Q(0, 1)
ROne == Q(1, 1)

RMinOf(S) == CHOOSE a \in S : \A b \in S : RLeq(a, b)
RMaxOf(S) == CHOOSE a \in S : \A b \in S : RLeq(b, a)

IsSquare(n) == \E i \in 0..n : i * i = n
ISqrt(n) == CHOOSE i \in 0..n : i * i = n

\* sqrt(q) for q >= 0 as coef * sqrt(rad): rad = 1 when q is the square of a rational.
RSqrt(q) ==
    IF IsSquare(q[1]) /\ IsSquare(q[2])
    THEN [coef |-> Q(ISqrt(q[1]), ISqrt(q[2])), rad |-> ROne]
    ELSE [coef |-> ROne, rad |-> q]

\* a + b * sqrt(r), in the one form <<a, b, r>> this model writes it in.
Surd(a, b, r) ==
    IF b = RZero \/ r = ROne THEN <<RAdd(a, b), RZero, ROne>> ELSE <<a, b, r>>

VSub(p, q) == [k \in 1..3 |-> RSub(p[k], q[k])]
VAdd(p, q) == [k \in 1..3 |-> RAdd(p[k], q[k])]
VScale(c, p) == [k \in 1..3 |-> RMul(c, p[k])]

Cross(a, b) ==
    << RSub(RMul(a[2], b[3]), RMul(a[3], b[2])),
       RSub(RMul(a[3], b[1]), RMul(a[1], b[3])),
       RSub(RMul(a[1], b[2]), RMul(a[2], b[1])) >>

RECURSIVE Flatten(_)
Flatten(rows) == IF rows = <<>> THEN <<>> ELSE Head(rows) \o Flatten(Tail(rows))

Range(s) == {s[i] : i \in 1..Len(s)}

SeqsUpTo(S, n) == UNION {[1..k -> S] : k \in 1..n}

----------------------------------------------------------------------------
(* SvBendAlongSurfaceNode: input data *)

P1 == <<Q(1, 2), Q(1, 2), Q(2, 1)>>
P2 == <<Q(0, 1), Q(0, 1), Q(0, 1)>>
P3 == <<Q(1, 1), Q(0, 1), Q(3, 1)>>

\* Rows of a source grid: one point, two points that differ on every axis, two
\* points that share their Y coordinate.
RowPool == {<<P1>>, <<P1, P2>>, <<P2, P3>>}

\* Source grids: no row, one empty row, one row, two rows of two points, two
\* rows of one and of two points.
GridPool ==
    {<<>>, << <<>> >>} \cup {<<r>> : r \in RowPool}
        \cup {<< <<P1, P2>>, <<P2, P3>> >>, << <<P1>>, <<P2, P3>> >>}

\* A flat 3x3 surface grid at z = 0 spanning the unit square.
Flat3x3 == [i \in 1..3 |-> [j \in 1..3 |-> <<Q(j - 1, 2), Q(i - 1, 2), Q(0, 1)>>]]

\* A flat 2x2 surface grid at z = 1 spanning [0,2] x [0,1].
Flat2x2 == << << <<Q(0, 1), Q(0, 1), Q(1, 1)>>, <<Q(2, 1), Q(0, 1), Q(1, 1)>> >>,
              << <<Q(0, 1), Q(1, 1), Q(1, 1)>>, <<Q(2, 1), Q(1, 1), Q(1, 1)>> >> >>

\* A surface grid of one point: no spline can be fitted through it.
OnePoint == << << <<Q(0, 1), Q(0, 1), Q(0, 1)>> >> >>

SurfacePool == {Flat3x3, Flat2x2, OnePoint}

Unset == [set |-> FALSE, data |-> <<>>]

----------------------------------------------------------------------------
(* sverchok.utils.geom and sverchok.data_structure, as the node uses them *)

\* Spline2D(surface, u_spline_constructor, metric): a fitted surface, or an
\* error when the grid has fewer than 2x2 control points.
Spline2D(surface, u_spline_constructor, metric_) ==
    IF Len(surface) < 2 \/ \E i \in 1..Len(surface) : Len(surface[i]) < 2
    THEN [exc |-> "SplineError"]
    ELSE [exc |-> "None", vertices |-> surface,
          u_spline_constructor |-> u_spline_constructor, metric |-> metric_]

\* Corner points and the mixed difference of the grid of a spline.
SplineA(spline) == spline.vertices[1][1]
SplineDu(spline) == VSub(spline.vertices[1][Len(spline.vertices[1])], SplineA(spline))
SplineDv(spline) == VSub(spline.vertices[Len(spline.vertices)][1], SplineA(spline))
SplineDuv(spline) ==
    LET m == Len(spline.vertices)
        n == Len(spline.vertices[m])
    IN  VSub(VSub(spline.vertices[m][n], SplineA(spline)),
             VAdd(SplineDu(spline), SplineDv(spline)))

\* Spline2D.eval(u, v): u runs along a row of the grid, v across the rows.  The
\* grids of SurfacePool are flat and evenly spaced, where the linear and the
\* cubic fit both give the bilinear map of the corners.
spline_eval(spline, u, v) ==
    VAdd(VAdd(SplineA(spline), VScale(u, SplineDu(spline))),
         VAdd(VScale(v, SplineDv(spline)), VScale(RMul(u, v), SplineDuv(spline))))

\* Spline2D.normal(u, v): the unit vector along dP/du x dP/dv.  The cross
\* product of an axis-aligned flat grid has one non-zero component, so its unit
\* vector is the vector of the signs.
spline_normal(spline, u, v) ==
    LET du == VAdd(SplineDu(spline), VScale(v, SplineDuv(spline)))
        dv == VAdd(SplineDv(spline), VScale(u, SplineDuv(spline)))
        n == Cross(du, dv)
    IN  [k \in 1..3 |-> Q(Sign(n[k][1]), 1)]

\* diameter(vertices, axis): the extent of the points along the axis.
diameter(vertices, axis) ==
    LET cs == {vertices[i][axis + 1] : i \in 1..Len(vertices)}
    IN  RSub(RMaxOf(cs), RMinOf(cs))

\* match_long_repeat([a, b]): the two lists zipped, the shorter one continued
\* with its last element.
match_long_repeat(a, b) ==
    LET n == IF Len(a) > Len(b) THEN Len(a) ELSE Len(b)
        at(l, i) == IF i <= Len(l) THEN l[i] ELSE l[Len(l)]
    IN  [i \in 1..n |-> <<at(a, i), at(b, i)>>]

----------------------------------------------------------------------------
(* SvBendAlongSurfaceNode *)

metric == "DISTANCE"

get_axis_idx(letter) ==
    CASE letter = "X" -> 0
      [] letter = "Y" -> 1
      [] letter = "Z" -> 2

\* A variant of orient_axis that ignores the property.
orient_axis_fixed == get_axis_idx("Z")

orient_axis == get_axis_idx(orient_axis_)

build_spline(surface) ==
    LET constructor == IF mode = "LIN" THEN "LinearSpline" ELSE "CubicSpline"
    IN  Spline2D(surface, constructor, metric)

\* A variant of get_other_axes whose Y branch repeats the else branch.
get_other_axes_copied ==
    IF orient_axis_ = "X" THEN <<1, 2>>
    ELSE IF orient_axis_ = "Y" THEN <<0, 1>>
    ELSE <<0, 1>>

get_other_axes ==
    IF orient_axis_ = "X" THEN <<1, 2>>
    ELSE IF orient_axis_ = "Y" THEN <<0, 2>>
    ELSE <<0, 1>>

\* A variant of extent with the operands exchanged.
extent_reversed(maxc, minc) == RSub(minc, maxc)

\* A variant of extent that turns a zero extent into one.
extent_clamped(maxc, minc) == IF maxc = minc THEN ROne ELSE RSub(maxc, minc)

\* max - min of the coordinates on one axis (size_u, size_v of get_uv).
extent(maxc, minc) == RSub(maxc, minc)

\* get_uv(vertices): [exc, size_u, size_v, result].  min() of no value raises
\* ValueError; a zero size_u or size_v makes the first division raise
\* ZeroDivisionError.
get_uv(vertices) ==
    LET u_index == get_other_axes[1]
        v_index == get_other_axes[2]
        flat == Flatten(vertices)
        us == {flat[i][u_index + 1] : i \in 1..Len(flat)}
        vs == {flat[i][v_index + 1] : i \in 1..Len(flat)}
    IN  IF flat = <<>> THEN [exc |-> "ValueError"]
        ELSE
          LET min_u == RMinOf(us)
              max_u == RMaxOf(us)
              min_v == RMinOf(vs)
              max_v == RMaxOf(vs)
              size_u == extent(max_u, min_u)
              size_v == extent(max_v, min_v)
          IN  IF size_u = RZero \/ size_v = RZero THEN [exc |-> "ZeroDivisionError"]
              ELSE [exc |-> "None", size_u |-> size_u, size_v |-> size_v,
                    result |-> [i \in 1..Len(vertices) |->
                                  [j \in 1..Len(vertices[i]) |->
                                     << RDiv(RSub(vertices[i][j][u_index + 1], min_u), size_u),
                                        RDiv(RSub(vertices[i][j][v_index + 1], min_v), size_v) >>]]]

\* The displacement scale of process(): sqrt(scale_u * scale_v) with autoscale,
\* 1.0 without.
scale_z_of(surface, src_size_u, src_size_v) ==
    IF autoscale
    THEN LET u_index == get_other_axes[1]
             v_index == get_other_axes[2]
             surface_flattened == Flatten(surface)
             scale_u == RDiv(diameter(surface_flattened, u_index), src_size_u)
             scale_v == RDiv(diameter(surface_flattened, v_index), src_size_v)
         IN  RSqrt(RMul(scale_u, scale_v))
    ELSE [coef |-> ROne, rad |-> ROne]

\* spline_vertex + scale_z * z * spline_normal for one source vertex.
new_vertex_of(spline, uv, src_vertex, scale_z) ==
    LET spline_vertex == spline_eval(spline, uv[1], uv[2])
        normal == spline_normal(spline, uv[1], uv[2])
        z == src_vertex[orient_axis + 1]
    IN  [k \in 1..3 |->
           Surd(spline_vertex[k], RMul(RMul(scale_z.coef, z), normal[k]), scale_z.rad)]

Min(a, b) == IF a < b THEN a ELSE b

\* A variant of new_vertices_of whose outer loop stops one row early.
new_vertices_short(spline, uv_coords, vertices, scale_z) ==
    [i \in 1..(Min(Len(uv_coords), Len(vertices)) - 1) |->
        [j \in 1..Min(Len(uv_coords[i]), Len(vertices[i])) |->
            new_vertex_of(spline, uv_coords[i][j], vertices[i][j], scale_z)]]

\* The two nested loops over zip(uv_coords, vertices) and zip(uv_row, vertices_row):
\* zip stops with the shorter of its two lists.
new_vertices_of(spline, uv_coords, vertices, scale_z) ==
    [i \in 1..Min(Len(uv_coords), Len(vertices)) |->
        [j \in 1..Min(Len(uv_coords[i]), Len(vertices[i])) |->
            new_vertex_of(spline, uv_coords[i][j], vertices[i][j], scale_z)]]

\* The rest of an iteration once the spline is built: [exc, new_vertices].
bend_vertices(spline, uv, vertices, surface) ==
    IF uv.exc # "None" THEN [exc |-> uv.exc]
    ELSE [exc |-> "None",
          new_vertices |->
              new_vertices_of(spline, uv.result, vertices,
                              scale_z_of(surface, uv.size_u, uv.size_v))]

\* One iteration of the loop of process(): [exc, new_vertices].
process_iteration(vertices, surface) ==
    LET spline == build_spline(surface)
    IN  IF spline.exc # "None" THEN [exc |-> spline.exc]
        ELSE bend_vertices(spline, get_uv(vertices), vertices, surface)

objects == match_long_repeat(vertices_s, <<surfaces>>)

\* process(), up to the loop: the two early returns, the inputs read.
BendProcessBegin ==
    /\ node = "SvBendAlongSurfaceNode"
    /\ pc = "idle"
    /\ IF ~out_linked \/ ~vertices_linked
       THEN pc' = "returned" /\ UNCHANGED <<idx, result_vertices>>
       ELSE pc' = "loop" /\ idx' = 1 /\ result_vertices' = <<>>
    /\ UNCHANGED <<node, exc, out_linked, sets, orient_axis_, autoscale, mode,
                   vertices_linked, vertices_s, surfaces, out_Vertices>>
    /\ UNCHANGED selectVars
    /\ UNCHANGED mathVars
    /\ UNCHANGED groupVars

\* One pass of the loop over zip(*objects).
BendProcessLoop ==
    /\ node = "SvBendAlongSurfaceNode"
    /\ pc = "loop"
    /\ idx <= Len(objects)
    /\ LET r == process_iteration(objects[idx][1], objects[idx][2])
       IN  IF r.exc # "None"
           THEN pc' = "raised" /\ exc' = r.exc /\ UNCHANGED <<idx, result_vertices>>
           ELSE /\ result_vertices' = Append(result_vertices, r.new_vertices)
                /\ idx' = idx + 1
                /\ UNCHANGED <<pc, exc>>
    /\ UNCHANGED <<node, out_linked, sets, orient_axis_, autoscale, mode,
                   vertices_linked, vertices_s, surfaces, out_Vertices>>
    /\ UNCHANGED selectVars
    /\ UNCHANGED mathVars
    /\ UNCHANGED groupVars

\* A variant of BendProcessSet with the sv_set call inside the loop body.
BendProcessSetInLoop ==
    /\ node = "SvBendAlongSurfaceNode"
    /\ pc = "loop"
    /\ out_Vertices # [set |-> TRUE, data |-> result_vertices]
    /\ out_Vertices' = [set |-> TRUE, data |-> result_vertices]
    /\ sets' = 1
    /\ pc' = IF idx > Len(objects) THEN "done" ELSE "loop"
    /\ UNCHANGED <<node, idx, exc, out_linked, orient_axis_, autoscale, mode,
                   vertices_linked, vertices_s, surfaces, result_vertices>>
    /\ UNCHANGED selectVars
    /\ UNCHANGED mathVars
    /\ UNCHANGED groupVars

\* self.outputs['Vertices'].sv_set(result_vertices), after the loop.
BendProcessSet ==
    /\ node = "SvBendAlongSurfaceNode"
    /\ pc = "loop"
    /\ idx > Len(objects)
    /\ out_Vertices' = [set |-> TRUE, data |-> result_vertices]
    /\ sets' = sets + 1
    /\ pc' = "done"
    /\ UNCHANGED <<node, idx, exc, out_linked, orient_axis_, autoscale, mode,
                   vertices_linked, vertices_s, surfaces, result_vertices>>
    /\ UNCHANGED selectVars
    /\ UNCHANGED mathVars
    /\ UNCHANGED groupVars


----------------------------------------------------------------------------
(* SvSelectSolidNode: input data *)

Dot3(a, b) == a[1] * b[1] + a[2] * b[2] + a[3] * b[3]
Sub3(a, b) == <<a[1] - b[1], a[2] - b[2], a[3] - b[3]>>
Cross3(a, b) ==
    <<a[2] * b[3] - a[3] * b[2], a[3] * b[1] - a[1] * b[3], a[1] * b[2] - a[2] * b[1]>>

\* The length of a vector along a coordinate axis (the vectors of DirectionPool).
norm(d) == Abs(d[1]) + Abs(d[2]) + Abs(d[3])

BoxVertexes == {<<x, y, z>> : x \in {0, 1}, y \in {0, 1}, z \in {0, 1}}

\* The unit box: a vertex is its point, an edge the set of its two end vertices,
\* a face <<axis, value>> the square where the coordinate of that axis is value.
Box ==
    [Vertexes |-> BoxVertexes,
     Edges |-> {e \in SUBSET BoxVertexes :
                  /\ Cardinality(e) = 2
                  /\ \E v \in e, w \in e :
                        Cardinality({k \in 1..3 : v[k] # w[k]}) = 1},
     Faces |-> {<<a, c>> : a \in 1..3, c \in {0, 1}}]

\* A shape without elements (Part.Shape()).
NullShape == [Vertexes |-> {}, Edges |-> {}, Faces |-> {}]

\* A unit square in the plane z = 0: four vertices, four edges, one face.
Square ==
    [Vertexes |-> {v \in BoxVertexes : v[3] = 0},
     Edges |-> {e \in Box.Edges : \A v \in e : v[3] = 0},
     Faces |-> {<<3, 0>>}]

SolidPool == {Box, NullShape, Square}

\* Socket data of nesting level 2 with at most n solids in all.
RECURSIVE Nested(_, _)
Nested(S, n) ==
    IF n = 0 THEN {<<>>}
    ELSE {<<>>} \cup
         UNION { UNION { {<<inner>> \o rest : rest \in Nested(S, n - k)} :
                             inner \in [1..k -> S] } : k \in 1..n }

DirectionPool == {<<1, 0, 0>>, <<0, 0, 2>>, <<0, -1, 0>>}
CenterPool == {<<0, 0, 0>>, <<2, 0, 0>>}
PercentPool == {0, 50, 100}
RadiusPool == {0, 1, 2}

NoMasks == [v |-> <<>>, e |-> <<>>, f |-> <<>>]
UnsetMasks == [set |-> FALSE, v |-> <<>>, e |-> <<>>, f |-> <<>>]

----------------------------------------------------------------------------
(* sverchok.utils.solid.SvSolidTopology and sverchok.utils.geom, as the node *)
(* uses them.  topo is the solid itself; tessellation adds no sample point   *)
(* to a straight edge or a flat face.                                        *)

VertexesOfFace(topo, face) == {v \in topo.Vertexes : v[face[1]] = face[2]}

get_points_by_edge(topo, edge) == edge

get_points_by_face(topo, face) == VertexesOfFace(topo, face)

\* Squared distances, as rationals.
point_distance_sq(center_, v) == Q(Dot3(Sub3(v, center_), Sub3(v, center_)), 1)

\* PlaneEquation.from_normal_and_point(direction, center).distance_to_point(v)
plane_distance(direction_, center_, v) ==
    Q(Abs(Dot3(direction_, Sub3(v, center_))), norm(direction_))

\* LineEquation.from_direction_and_point(direction, center).distance_to_point(v),
\* squared.
line_distance_sq(direction_, center_, v) ==
    LET c == Cross3(Sub3(v, center_), direction_)
    IN  Q(Dot3(c, c), norm(direction_) * norm(direction_))

\* x < radius for the distance x >= 0 whose square is xsq.
SqLess(xsq, radius_) == radius_ > 0 /\ RLess(xsq, Q(radius_ * radius_, 1))

get_vertices_within_range_mask(topo, center_, radius_) ==
    [v \in topo.Vertexes |-> SqLess(point_distance_sq(center_, v), radius_)]

get_vertices_by_location_mask(topo, condition) ==
    [v \in topo.Vertexes |-> condition[v]]

get_edges_by_location_mask(topo, condition, include_partial_) ==
    [e \in topo.Edges |->
        IF include_partial_
        THEN \E p \in get_points_by_edge(topo, e) : condition[p]
        ELSE \A p \in get_points_by_edge(topo, e) : condition[p]]

get_faces_by_location_mask(topo, condition, include_partial_) ==
    [f \in topo.Faces |->
        IF include_partial_
        THEN \E p \in get_points_by_face(topo, f) : condition[p]
        ELSE \A p \in get_points_by_face(topo, f) : condition[p]]

\* Adjacency: the elements incident to at least one element of the given set.
get_edges_by_vertices_mask(topo, verts) ==
    [e \in topo.Edges |-> \E v \in verts : v \in e]

get_faces_by_vertices_mask(topo, verts) ==
    [f \in topo.Faces |-> \E v \in verts : v \in VertexesOfFace(topo, f)]

get_vertices_by_edges_mask(topo, edges) ==
    [v \in topo.Vertexes |-> \E e \in edges : v \in e]

get_faces_by_edges_mask(topo, edges) ==
    [f \in topo.Faces |-> \E e \in edges : e \subseteq VertexesOfFace(topo, f)]

get_vertices_by_faces_mask(topo, faces) ==
    [v \in topo.Vertexes |-> \E f \in faces : v \in VertexesOfFace(topo, f)]

get_edges_by_faces_mask(topo, faces) ==
    [e \in topo.Edges |-> \E f \in faces : e \subseteq VertexesOfFace(topo, f)]

\* linear_approximation(points).most_similar_line().direction of a box edge: the
\* unit vector of its axis.
line_direction(topo, edge) ==
    LET ax == CHOOSE k \in 1..3 : \E v \in edge, w \in edge : v[k] # w[k]
    IN  [k \in 1..3 |-> IF k = ax THEN 1 ELSE 0]

\* linear_approximation(points).most_similar_plane().normal of a box face: the
\* unit normal pointing out of the box.
plane_normal(topo, face) ==
    [k \in 1..3 |-> IF k = face[1] THEN (IF face[2] = 1 THEN 1 ELSE -1) ELSE 0]

----------------------------------------------------------------------------
(* SvSelectSolidNode *)

known_criteria ==
    [t \in {"VERTS", "EDGES", "FACES"} |->
        CASE t = "VERTS" -> {"SIDE", "SPHERE", "PLANE", "CYLINDER"}
          [] t = "EDGES" -> {"SIDE", "SPHERE", "PLANE", "CYLINDER", "DIRECTION"}
          [] t = "FACES" -> {"SIDE", "NORMAL", "SPHERE", "PLANE", "CYLINDER"}]

criteria_types == {"SIDE", "NORMAL", "SPHERE", "PLANE", "CYLINDER", "DIRECTION"}

\* A variant of map_percent that counts the percent up from the minimum.
map_percent_rising(values, percent_) ==
    IF values = {} THEN [exc |-> "ValueError"]
    ELSE LET maxv == RMaxOf(values)
             minv == RMinOf(values)
         IN  IF RLeq(maxv, minv) THEN [exc |-> "None", value |-> maxv]
             ELSE [exc |-> "None",
                   value |-> RAdd(minv, RMul(RMul(Q(percent_, 1), RSub(maxv, minv)),
                                             Q(1, 100)))]

\* map_percent(values, percent): [exc, value]; max() of no value raises ValueError.
map_percent(values, percent_) ==
    IF values = {} THEN [exc |-> "ValueError"]
    ELSE LET maxv == RMaxOf(values)
             minv == RMinOf(values)
         IN  IF RLeq(maxv, minv) THEN [exc |-> "None", value |-> maxv]
             ELSE [exc |-> "None",
                   value |-> RSub(maxv, RMul(RMul(Q(percent_, 1), RSub(maxv, minv)),
                                             Q(1, 100)))]

\* values > threshold, element by element.
above(threshold, values) ==
    IF threshold.exc # "None" THEN [exc |-> threshold.exc]
    ELSE [exc |-> "None",
          mask |-> [x \in DOMAIN values |-> RLess(threshold.value, values[x])]]

\* A variant of check_above with the two checks exchanged.
check_above_swapped(threshold, values_per_, include_partial_) ==
    IF threshold.exc # "None" THEN [exc |-> threshold.exc]
    ELSE [exc |-> "None",
          mask |-> [x \in DOMAIN values_per_ |->
                      IF include_partial_
                      THEN \A val \in values_per_[x] : RLess(threshold.value, val)
                      ELSE \E val \in values_per_[x] : RLess(threshold.value, val)]]

\* check(values > threshold) for the sample values of each element, check being
\* any with include_partial and all without.
check_above(threshold, values_per_, include_partial_) ==
    IF threshold.exc # "None" THEN [exc |-> threshold.exc]
    ELSE [exc |-> "None",
          mask |-> [x \in DOMAIN values_per_ |->
                      IF include_partial_
                      THEN \E val \in values_per_[x] : RLess(threshold.value, val)
                      ELSE \A val \in values_per_[x] : RLess(threshold.value, val)]]

\* _by_side(points, direction, percent): [exc, mask]; points.dot(direction) of
\* an array of no point raises ValueError.
_by_side(points, direction_, percent_) ==
    IF points = {} THEN [exc |-> "ValueError"]
    ELSE LET values == [p \in points |-> Q(Dot3(p, direction_), norm(direction_))]
         IN  above(map_percent({values[p] : p \in points}, percent_), values)

_verts_by_side(topo, direction_, percent_) ==
    _by_side(topo.Vertexes, direction_, percent_)

_verts_by_sphere(topo, center_, radius_) ==
    [exc |-> "None", mask |-> get_vertices_within_range_mask(topo, center_, radius_)]

\* A variant of _verts_by_plane with the comparison turned around.
_verts_by_plane_outside(topo, center_, direction_, radius_) ==
    LET condition == [v \in topo.Vertexes |->
            RLess(Q(radius_, 1), plane_distance(direction_, center_, v))]
    IN  [exc |-> "None", mask |-> get_vertices_by_location_mask(topo, condition)]

_verts_by_plane(topo, center_, direction_, radius_) ==
    LET condition == [v \in topo.Vertexes |->
            RLess(plane_distance(direction_, center_, v), Q(radius_, 1))]
    IN  [exc |-> "None", mask |-> get_vertices_by_location_mask(topo, condition)]

_verts_by_cylinder(topo, center_, direction_, radius_) ==
    LET condition == [v \in topo.Vertexes |->
            SqLess(line_distance_sq(direction_, center_, v), radius_)]
    IN  [exc |-> "None", mask |-> get_vertices_by_location_mask(topo, condition)]

\* The sample values of each element of a by-side selection of edges or faces
\* (values_per_edge, values_per_face).
values_per(topo, elems, direction_) ==
    [x \in elems |->
        {Q(Dot3(p, direction_), 1) :
            p \in (IF elems = topo.Edges THEN get_points_by_edge(topo, x)
                   ELSE get_points_by_face(topo, x))}]

\* The threshold over all sample values and the check of each element.
by_side_of(values, percent_, include_partial_) ==
    check_above(map_percent(UNION {values[x] : x \in DOMAIN values}, percent_), values,
                include_partial_)

_edges_by_side(topo, direction_, percent_) ==
    by_side_of(values_per(topo, topo.Edges, direction_), percent_, include_partial)

\* A variant of _edges_by_sphere with <= for <.
_edges_by_sphere_closed(topo, center_, radius_) ==
    LET condition == [p \in topo.Vertexes |->
            RLeq(Q(Dot3(Sub3(p, center_), Sub3(p, center_)), 1), Q(radius_ * radius_, 1))]
    IN  [exc |-> "None",
         mask |-> get_edges_by_location_mask(topo, condition, include_partial)]

_edges_by_sphere(topo, center_, radius_) ==
    LET condition == [p \in topo.Vertexes |->
            RLess(Q(Dot3(Sub3(p, center_), Sub3(p, center_)), 1), Q(radius_ * radius_, 1))]
    IN  [exc |-> "None",
         mask |-> get_edges_by_location_mask(topo, condition, include_partial)]

_edges_by_plane(topo, center_, direction_, radius_) ==
    LET condition == [p \in topo.Vertexes |->
            RLess(plane_distance(direction_, center_, p), Q(radius_, 1))]
    IN  [exc |-> "None",
         mask |-> get_edges_by_location_mask(topo, condition, include_partial)]

_edges_by_cylinder(topo, center_, direction_, radius_) ==
    LET condition == [p \in topo.Vertexes |->
            SqLess(line_distance_sq(direction_, center_, p), radius_)]
    IN  [exc |-> "None",
         mask |-> get_edges_by_location_mask(topo, condition, include_partial)]

_edges_by_direction(topo, direction_, percent_) ==
    LET values == [e \in topo.Edges |->
                     Q(Abs(Dot3(direction_, line_direction(topo, e))), 1)]
    IN  above(map_percent({values[e] : e \in topo.Edges}, percent_), values)

_faces_by_side(topo, direction_, percent_) ==
    by_side_of(values_per(topo, topo.Faces, direction_), percent_, include_partial)

_faces_by_normal(topo, direction_, percent_) ==
    LET values == [f \in topo.Faces |-> Q(Dot3(direction_, plane_normal(topo, f)), 1)]
    IN  above(map_percent({values[f] : f \in topo.Faces}, percent_), values)

_faces_by_sphere(topo, center_, radius_) ==
    LET condition == [p \in topo.Vertexes |->
            RLess(Q(Dot3(Sub3(p, center_), Sub3(p, center_)), 1), Q(radius_ * radius_, 1))]
    IN  [exc |-> "None",
         mask |-> get_faces_by_location_mask(topo, condition, include_partial)]

_faces_by_plane(topo, center_, direction_, radius_) ==
    LET condition == [p \in topo.Vertexes |->
            RLess(plane_distance(direction_, center_, p), Q(radius_, 1))]
    IN  [exc |-> "None",
         mask |-> get_faces_by_location_mask(topo, condition, include_partial)]

_faces_by_cylinder(topo, center_, direction_, radius_) ==
    LET condition == [p \in topo.Vertexes |->
            SqLess(line_distance_sq(direction_, center_, p), radius_)]
    IN  [exc |-> "None",
         mask |-> get_faces_by_location_mask(topo, condition, include_partial)]

\* A variant of Selected without the "if c" of the comprehension.
Selected_all(mask) == DOMAIN mask

\* [x for c, x in zip(mask, elems) if c]
Selected(mask) == {x \in DOMAIN mask : mask[x]}

\* A variant of verts_branch whose else branch selects by side.
verts_branch_default(topo, direction_, center_, percent_, radius_) ==
    CASE criteria_type = "SPHERE" -> _verts_by_sphere(topo, center_, radius_)
      [] criteria_type = "PLANE" -> _verts_by_plane(topo, center_, direction_, radius_)
      [] criteria_type = "CYLINDER" -> _verts_by_cylinder(topo, center_, direction_, radius_)
      [] OTHER -> _verts_by_side(topo, direction_, percent_)

\* The three branches of calc_mask on criteria_type: the routine of the
\* criterion, or Exception for a criterion the branch does not name.
verts_branch(topo, direction_, center_, percent_, radius_) ==
    CASE criteria_type = "SIDE" -> _verts_by_side(topo, direction_, percent_)
      [] criteria_type = "SPHERE" -> _verts_by_sphere(topo, center_, radius_)
      [] criteria_type = "PLANE" -> _verts_by_plane(topo, center_, direction_, radius_)
      [] criteria_type = "CYLINDER" -> _verts_by_cylinder(topo, center_, direction_, radius_)
      [] OTHER -> [exc |-> "Exception"]

edges_branch(topo, direction_, center_, percent_, radius_) ==
    CASE criteria_type = "SIDE" -> _edges_by_side(topo, direction_, percent_)
      [] criteria_type = "SPHERE" -> _edges_by_sphere(topo, center_, radius_)
      [] criteria_type = "PLANE" -> _edges_by_plane(topo, center_, direction_, radius_)
      [] criteria_type = "CYLINDER" -> _edges_by_cylinder(topo, center_, direction_, radius_)
      [] criteria_type = "DIRECTION" -> _edges_by_direction(topo, direction_, percent_)
      [] OTHER -> [exc |-> "Exception"]

faces_branch(topo, direction_, center_, percent_, radius_) ==
    CASE criteria_type = "SIDE" -> _faces_by_side(topo, direction_, percent_)
      [] criteria_type = "NORMAL" -> _faces_by_normal(topo, direction_, percent_)
      [] criteria_type = "SPHERE" -> _faces_by_sphere(topo, center_, radius_)
      [] criteria_type = "PLANE" -> _faces_by_plane(topo, center_, direction_, radius_)
      [] criteria_type = "CYLINDER" -> _faces_by_cylinder(topo, center_, direction_, radius_)
      [] OTHER -> [exc |-> "Exception"]

\* The primary mask of calc_mask: the branch of element_type.
primary_mask(topo, direction_, center_, percent_, radius_) ==
    IF element_type = "VERTS"
    THEN verts_branch(topo, direction_, center_, percent_, radius_)
    ELSE IF element_type = "EDGES"
    THEN edges_branch(topo, direction_, center_, percent_, radius_)
    ELSE faces_branch(topo, direction_, center_, percent_, radius_)

\* The second half of calc_mask: the two other masks by adjacency.
derived_masks(topo, first) ==
    IF first.exc # "None" THEN [exc |-> first.exc]
    ELSE IF element_type = "VERTS" THEN
        [exc |-> "None", vertex_mask |-> first.mask,
         edge_mask |-> get_edges_by_vertices_mask(topo, Selected(first.mask)),
         face_mask |-> get_faces_by_vertices_mask(topo, Selected(first.mask))]
    ELSE IF element_type = "EDGES" THEN
        [exc |-> "None", edge_mask |-> first.mask,
         vertex_mask |-> get_vertices_by_edges_mask(topo, Selected(first.mask)),
         face_mask |-> get_faces_by_edges_mask(topo, Selected(first.mask))]
    ELSE
        [exc |-> "None", face_mask |-> first.mask,
         vertex_mask |-> get_vertices_by_faces_mask(topo, Selected(first.mask)),
         edge_mask |-> get_edges_by_faces_mask(topo, Selected(first.mask))]

\* calc_mask(solid, precision, direction, center, percent, radius):
\* [exc, vertex_mask, edge_mask, face_mask].
calc_mask(solid, direction_, center_, percent_, radius_) ==
    derived_masks(solid, primary_mask(solid, direction_, center_, percent_, radius_))

\* process(), up to the loops: the early return, the inputs read.
SelectProcessBegin ==
    /\ node = "SvSelectSolidNode"
    /\ pc = "idle"
    /\ IF ~out_linked
       THEN pc' = "returned" /\ UNCHANGED <<idx, jdx, mask_new, mask_out>>
       ELSE /\ pc' = "loop"
            /\ idx' = 1
            /\ jdx' = 1
            /\ mask_new' = NoMasks
            /\ mask_out' = NoMasks
    /\ UNCHANGED <<node, exc, out_linked, sets, element_type, criteria_type,
                   include_partial, solid_s, direction, center, percent, radius, out_Masks>>
    /\ UNCHANGED bendVars
    /\ UNCHANGED mathVars
    /\ UNCHANGED groupVars

appended(masks, r) ==
    [v |-> Append(masks.v, r.vertex_mask),
     e |-> Append(masks.e, r.edge_mask),
     f |-> Append(masks.f, r.face_mask)]

\* The appends of the inner loop and, after the last solid of an inner list,
\* those of the outer loop.
LoopAppend(new) ==
    IF jdx < Len(solid_s[idx])
    THEN /\ jdx' = jdx + 1
         /\ mask_new' = new
         /\ UNCHANGED <<idx, mask_out>>
    ELSE /\ jdx' = 1
         /\ idx' = idx + 1
         /\ mask_new' = NoMasks
         /\ mask_out' = [v |-> Append(mask_out.v, new.v),
                         e |-> Append(mask_out.e, new.e),
                         f |-> Append(mask_out.f, new.f)]

LoopStep(r) ==
    IF r.exc # "None"
    THEN pc' = "raised" /\ exc' = r.exc /\ UNCHANGED <<idx, jdx, mask_new, mask_out>>
    ELSE LoopAppend(appended(mask_new, r)) /\ UNCHANGED <<pc, exc>>

\* One pass of the inner loop: calc_mask for one solid, then the appends.
SelectProcessLoop ==
    /\ node = "SvSelectSolidNode"
    /\ pc = "loop"
    /\ idx <= Len(solid_s)
    /\ LoopStep(calc_mask(solid_s[idx][jdx], direction, center, percent, radius))
    /\ UNCHANGED <<node, out_linked, sets, element_type, criteria_type,
                   include_partial, solid_s, direction, center, percent, radius, out_Masks>>
    /\ UNCHANGED bendVars
    /\ UNCHANGED mathVars
    /\ UNCHANGED groupVars

\* The three sv_set calls after the loops.
SelectProcessSet ==
    /\ node = "SvSelectSolidNode"
    /\ pc = "loop"
    /\ idx > Len(solid_s)
    /\ out_Masks' = [set |-> TRUE, v |-> mask_out.v, e |-> mask_out.e, f |-> mask_out.f]
    /\ sets' = sets + 3
    /\ pc' = "done"
    /\ UNCHANGED <<node, idx, exc, out_linked, element_type, criteria_type,
                   include_partial, solid_s, direction, center, percent, radius,
                   jdx, mask_new, mask_out>>
    /\ UNCHANGED bendVars
    /\ UNCHANGED mathVars
    /\ UNCHANGED groupVars

RadiusCriteria == {"SPHERE", "PLANE", "CYLINDER"}
PercentCriteria == {"SIDE", "NORMAL", "DIRECTION"}

\* The user raises the Radius property (update=updateNode): the host runs
\* process() again on the same data; the output sockets keep what they hold.
SelectRadiusUpdate ==
    /\ node = "SvSelectSolidNode"
    /\ pc \in {"done", "raised", "returned"}
    /\ criteria_type \in RadiusCriteria
    /\ \E r \in RadiusPool : r > radius /\ radius' = r
    /\ pc' = "idle"
    /\ exc' = "None"
    /\ sets' = 0
    /\ UNCHANGED <<node, idx, out_linked, element_type, criteria_type,
                   include_partial, solid_s, direction, center, percent,
                   jdx, mask_new, mask_out, out_Masks>>
    /\ UNCHANGED bendVars
    /\ UNCHANGED mathVars
    /\ UNCHANGED groupVars

----------------------------------------------------------------------------
(* SvVectorMathNodeMK2: inputs *)

V1 == <<1, 0, 2>>
V2 == <<0, 3, 1>>

\* Data of socket A: objects, each a list of vectors.
OnePool == { << <<V1>> >>, << <<V1, V2>> >>, << <<V1>>, <<V2, V1>> >>, << <<>> >> }

\* Data of socket B: objects of vectors (kind "v"), or objects of numbers
\* (kind "s").
TwoPool(kind) ==
    IF kind = "v"
    THEN { << <<V2>> >>, << <<V2, V1>>, <<V1>> >>, << <<>> >> }
    ELSE { << <<2>> >>, << <<0, 2>> >> }

NoData == [set |-> FALSE, data |-> <<>>]

----------------------------------------------------------------------------
(* SvVectorMathNodeMK2: the code *)

socket_type(t) == IF t = "s" THEN "StringsSocket" ELSE "VerticesSocket"

Operations ==
    {"DOT", "DISTANCE", "ANGLE DEG", "ANGLE RAD", "LEN", "CELL-S",
     "CROSS", "ADD", "SUB", "PROJECT", "REFLECT", "COMPONENT-WISE",
     "SCALAR", "1/SCALAR", "ROUND", "NORMALIZE", "NEG", "CELL-V"}

\* The signature column of func_dict: the letters of the inputs, the letter
\* of the output.
func_dict ==
    [op \in Operations |->
        CASE op \in {"DOT", "DISTANCE", "ANGLE DEG", "ANGLE RAD"} -> << <<"v", "v">>, "s" >>
          [] op \in {"LEN", "CELL-S"} -> << <<"v">>, "s" >>
          [] op \in {"CROSS", "ADD", "SUB", "PROJECT", "REFLECT", "COMPONENT-WISE"} -> << <<"v", "v">>, "v" >>
          [] op \in {"SCALAR", "1/SCALAR", "ROUND"} -> << <<"v", "s">>, "v" >>
          [] OTHER -> << <<"v">>, "v" >>]

Returned(x) == [exc |-> "None", value |-> x]
Raised(e) == [exc |-> e, value |-> <<>>]

\* func(u, v), the function column of func_dict called with two arguments,
\* v being a vector (kind "v") or a number (kind "s").  A lambda of one
\* parameter cannot take two; a vector operand cannot be a number, nor a
\* number operand a vector of floats.  The results of mathutils are kept
\* as terms.
func(op, u, v, kind) ==
    IF Len(func_dict[op][1]) # 2 \/ func_dict[op][1][2] # kind
    THEN Raised("TypeError")
    ELSE CASE op = "ADD" -> Returned(<<u[1] + v[1], u[2] + v[2], u[3] + v[3]>>)
           [] op = "SUB" -> Returned(<<u[1] - v[1], u[2] - v[2], u[3] - v[3]>>)
           [] op = "COMPONENT-WISE" -> Returned(<<u[1] * v[1], u[2] * v[2], u[3] * v[3]>>)
           [] op = "SCALAR" -> Returned(<<u[1] * v, u[2] * v, u[3] * v>>)
           [] op = "1/SCALAR" ->
                IF v = 0 THEN Raised("ZeroDivisionError")
                ELSE Returned(<<Q(u[1], v), Q(u[2], v), Q(u[3], v)>>)
           [] OTHER -> Returned(<<op, u, v>>)

\* func(u), the function called with one argument.
func1(op, u) ==
    IF Len(func_dict[op][1]) # 1
    THEN Raised("TypeError")
    ELSE IF op = "NEG" THEN Returned(<<-u[1], -u[2], -u[3]>>)
    ELSE Returned(<<op, u>>)

\* The results of a loop that appends: the first exception ends it.
Collected(res) ==
    IF \E i \in DOMAIN res : res[i].exc # "None"
    THEN Raised(res[CHOOSE i \in DOMAIN res :
                        /\ res[i].exc # "None"
                        /\ \A k \in 1..(i - 1) : res[k].exc = "None"].exc)
    ELSE Returned([i \in DOMAIN res |-> res[i].value])

RECURSIVE recurse_fx(_, _, _)
recurse_fx(l, op, leve) ==
    IF leve = 0
    THEN func1(op, l)
    ELSE Collected([i \in 1..Len(l) |-> recurse_fx(l[i], op, leve - 1)])

Max(a, b) == IF a > b THEN a ELSE b

\* fl = l2[-1] if len(l1) > len(l2) else l1[-1]
fillvalue(l1, l2) == IF Len(l1) > Len(l2) THEN l2[Len(l2)] ELSE l1[Len(l1)]

zip(l1, l2, fl) ==
    [i \in 1..Min(Len(l1), Len(l2)) |-> <<l1[i], l2[i]>>]

\* zip_longest(l1, l2, fillvalue=fl)
zip_longest(l1, l2, fl) ==
    [i \in 1..Max(Len(l1), Len(l2)) |->
        << IF i <= Len(l1) THEN l1[i] ELSE fl, IF i <= Len(l2) THEN l2[i] ELSE fl >>]

RECURSIVE recurse_fxy(_, _, _, _, _)

\* The loop over the pairs: f on the pairs of the innermost level, the
\* recursion on the others.
for_u_v(pairs, op, kind, leve) ==
    Collected([i \in DOMAIN pairs |->
        IF leve = 1
        THEN func(op, pairs[i][1], pairs[i][2], kind)
        ELSE recurse_fxy(pairs[i][1], pairs[i][2], op, kind, leve - 1)])

\* [-1] of an empty list is an IndexError.
recurse_fxy(l1, l2, op, kind, leve) ==
    IF (IF Len(l1) > Len(l2) THEN l2 ELSE l1) = <<>>
    THEN Raised("IndexError")
    ELSE for_u_v(zip_longest(l1, l2, fillvalue(l1, l2)), op, kind, leve)

\* levelsOflist on the data of the pools: a list of lists, empty or of
\* tuples.
levelsOflist(lst) ==
    IF lst = <<>> THEN 0
    ELSE IF lst[1] = <<>> THEN 1
    ELSE 3

except_reraise(r) == r.value

\* result = [[]]; try: result = ...; except: pass
except_pass(r) == IF r.exc = "None" THEN r.value ELSE << <<>> >>

\* The value process() hands to sv_set.
result ==
    IF Len(inputs) = 1
    THEN except_pass(recurse_fx(input_one, current_op, levelsOflist(input_one) - 1))
    ELSE IF Len(inputs) = 2
    THEN except_pass(recurse_fxy(input_one, input_two.data, current_op,
                                 input_two.kind, levelsOflist(input_one) - 1))
    ELSE << <<>> >>

\* process(), in one step.
VMProcess ==
    /\ node = "SvVectorMathNodeMK2"
    /\ pc' = "returned"
    /\ exc' = "None"
    /\ IF ~out_linked
       THEN sets' = 0 /\ UNCHANGED out_Out
       ELSE sets' = 1 /\ out_Out' = [set |-> TRUE, data |-> result]
    /\ UNCHANGED <<node, idx, out_linked, current_op, inputs, outputs,
                   input_one, input_two>>
    /\ UNCHANGED bendVars
    /\ UNCHANGED selectVars
    /\ UNCHANGED groupVars

\* mode_change after the user picks an operation: update_sockets replaces
\* the output socket and then compares len(t_inputs), an int, with
\* self.inputs, a collection, which is a TypeError; the sockets of the
\* inputs stay and updateNode is not reached.
mode_change ==
    /\ node = "SvVectorMathNodeMK2"
    /\ \E op \in Operations \ {current_op} :
        /\ current_op' = op
        /\ outputs' = <<socket_type(func_dict[op][2])>>
    /\ pc' = "raised"
    /\ exc' = "TypeError"
    /\ sets' = 0
    /\ UNCHANGED <<node, idx, out_linked, inputs, input_one, input_two, out_Out>>
    /\ UNCHANGED bendVars
    /\ UNCHANGED selectVars
    /\ UNCHANGED groupVars

----------------------------------------------------------------------------
(* The group operators (utils/group_tools.py): inputs *)

\* A node is <<name, t>>, t the execution that created it, 0 for the nodes
\* of the tree at the start.
StartNodes == {<<"A", 0>>, <<"B", 0>>, <<"C", 0>>}

Link(fn, fs, tn, ts) ==
    [from_node |-> fn, from_socket |-> fs, to_node |-> tn, to_socket |-> ts]

\* ng.links, in order; an input socket takes one link.
LinksPool ==
    { <<>>,
      <<Link(<<"A", 0>>, "out", <<"B", 0>>, "in")>>,
      <<Link(<<"B", 0>>, "out", <<"C", 0>>, "in")>>,
      <<Link(<<"A", 0>>, "out", <<"B", 0>>, "in"), Link(<<"B", 0>>, "out", <<"C", 0>>, "in")>>,
      <<Link(<<"A", 0>>, "out", <<"B", 0>>, "in"), Link(<<"A", 0>>, "out", <<"C", 0>>, "in")>>,
      <<Link(<<"A", 0>>, "out", <<"C", 0>>, "in"), Link(<<"A", 0>>, "out", <<"B", 0>>, "in")>> }

----------------------------------------------------------------------------
(* The group operators: the code *)

\* ng.freeze and ng.unfreeze set and clear the flag of the tree.
freeze(hard) == TRUE
unfreeze(hard) == FALSE

Ready == pc \in {"idle", "returned", "raised"}

test_in(l, nodes_) == l.to_node \in nodes_ /\ l.from_node \notin nodes_
test_out(l, nodes_) == l.from_node \in nodes_ /\ l.to_node \notin nodes_

in_links(links, nodes_) == SelectSeq(links, LAMBDA l : test_in(l, nodes_))
out_links(links, nodes_) == SelectSeq(links, LAMBDA l : test_out(l, nodes_))

group_in(t) == <<"SvGroupInputsNode", t>>
group_out(t) == <<"SvGroupOutputsNode", t>>
group_node(t) == <<"SvGroupNode", t>>

\* "{}:{}".format(i, in_socket.name), i counting from 0
s_name(i, l) == ToString(i - 1) \o ":" \o l.to_socket

\* The links the loop over in_links makes, two for each link removed.
new_in_links(ins, t) ==
    [k \in 1..(2 * Len(ins)) |->
        IF k % 2 = 1
        THEN Link(group_in(t), s_name((k + 1) \div 2, ins[(k + 1) \div 2]),
                  ins[(k + 1) \div 2].to_node, ins[(k + 1) \div 2].to_socket)
        ELSE Link(ins[k \div 2].from_node, ins[k \div 2].from_socket,
                  group_node(t), s_name(k \div 2, ins[k \div 2]))]

\* The links the loop over out_links makes.
new_out_links(outs, t) ==
    [k \in 1..(2 * Len(outs)) |->
        IF k % 2 = 1
        THEN Link(group_node(t), s_name((k + 1) \div 2, outs[(k + 1) \div 2]),
                  outs[(k + 1) \div 2].to_node, outs[(k + 1) \div 2].to_socket)
        ELSE Link(outs[k \div 2].from_node, outs[k \div 2].from_socket,
                  group_out(t), s_name(k \div 2, outs[k \div 2]))]

\* The sockets the two loops make: <<node, "in" or "out", name>>.
new_sockets(ins, outs, t) ==
    UNION {{<<group_node(t), "in", s_name(i, ins[i])>>,
            <<group_in(t), "out", s_name(i, ins[i])>>} : i \in 1..Len(ins)}
    \cup UNION {{<<group_node(t), "out", s_name(i, outs[i])>>,
                 <<group_out(t), "in", s_name(i, outs[i])>>} : i \in 1..Len(outs)}

\* ng.nodes.remove(n) for the nodes of gone: a node goes with its links.
links_without(links, gone) ==
    SelectSeq(links, LAMBDA l : l.from_node \notin gone /\ l.to_node \notin gone)

\* create_dict_of_tree: the nodes chosen, their sockets, the links among them.
create_dict_of_tree(links, sockets, chosen) ==
    [nodes |-> chosen,
     links |-> SelectSeq(links, LAMBDA l : l.from_node \in chosen /\ l.to_node \in chosen),
     sockets |-> {s \in sockets : s[1] \in chosen}]

\* import_tree makes new nodes: the node made from n by execution t.
imported(n, t) == <<n[1], n[2] * 10 + t>>

\* SvNodeGroupCreator.execute up to group_out.collect().  The report type
\* {"CANCELLED"} of the empty selection is not a report type of the host:
\* the call raises TypeError and the return statement is not reached.
SvNodeGroupCreator_execute ==
    /\ node = "group_tools"
    /\ Ready
    /\ ops < MaxOps
    /\ ops' = ops + 1
    /\ operator' = "SvNodeGroupCreator"
    /\ ng_frozen' = freeze(TRUE)
    /\ nodes' = ng_select
    /\ status' = "None"
    /\ IF ng_select = {}
       THEN /\ pc' = "raised"
            /\ exc' = "TypeError"
            /\ UNCHANGED <<ng_nodes, ng_select, ng_links, ng_sockets>>
       ELSE /\ pc' = "rewired"
            /\ exc' = "None"
            /\ ng_nodes' = ng_nodes \cup {group_in(ops'), group_out(ops'), group_node(ops')}
            /\ ng_select' = ng_select \cup {group_in(ops'), group_out(ops'), group_node(ops')}
            /\ ng_links' =
                    SelectSeq(ng_links, LAMBDA l : ~test_in(l, ng_select) /\ ~test_out(l, ng_select))
                    \o new_in_links(in_links(ng_links, ng_select), ops')
                    \o new_out_links(out_links(ng_links, ng_select), ops')
            /\ ng_sockets' = ng_sockets \cup
                    new_sockets(in_links(ng_links, ng_select), out_links(ng_links, ng_select), ops')
    /\ UNCHANGED <<node, idx, out_linked, sets, ng_parent, ng_keys, node_groups, group_name>>
    /\ UNCHANGED bendVars
    /\ UNCHANGED selectVars
    /\ UNCHANGED mathVars

\* SvNodeGroupCreator.execute from "deselect all" to the end.
SvNodeGroupCreator_move ==
    /\ node = "group_tools"
    /\ pc = "rewired"
    /\ LET moved == nodes \cup {group_in(ops), group_out(ops)}
       IN  /\ node_groups' = Append(node_groups, create_dict_of_tree(ng_links, ng_sockets, moved))
           /\ ng_nodes' = ng_nodes \ moved
           /\ ng_links' = links_without(ng_links, moved)
           /\ ng_sockets' = {s \in ng_sockets : s[1] \notin moved}
           /\ ng_parent' = {p \in ng_parent : p[1] \notin moved}
    /\ ng_select' = {}
    /\ ng_frozen' = unfreeze(FALSE)
    /\ group_name' = group_name \cup {<<group_node(ops), Len(node_groups) + 1>>}
    /\ pc' = "returned"
    /\ status' = "FINISHED"
    /\ UNCHANGED <<node, idx, exc, out_linked, sets, ops, operator, nodes, ng_keys>>
    /\ UNCHANGED bendVars
    /\ UNCHANGED selectVars
    /\ UNCHANGED mathVars

\* SvNodeGroupEdit.execute on a group node of the tree; the nodes that
\* import_tree makes are the selected ones.
SvNodeGroupEdit_execute ==
    /\ node = "group_tools"
    /\ Ready
    /\ ops < MaxOps
    /\ ops' = ops + 1
    /\ operator' = "SvNodeGroupEdit"
    /\ ng_frozen' = freeze(FALSE)
    /\ \E gn \in {g \in group_name : g[1] \in ng_nodes} :
        /\ nodes' = {imported(n, ops') : n \in node_groups[gn[2]].nodes}
        /\ ng_nodes' = ng_nodes \cup {<<"NodeFrame", ops'>>} \cup nodes'
        /\ ng_select' = nodes'
        /\ ng_links' = ng_links \o
                [k \in DOMAIN node_groups[gn[2]].links |->
                    Link(imported(node_groups[gn[2]].links[k].from_node, ops'),
                         node_groups[gn[2]].links[k].from_socket,
                         imported(node_groups[gn[2]].links[k].to_node, ops'),
                         node_groups[gn[2]].links[k].to_socket)]
        /\ ng_sockets' = ng_sockets \cup
                {<<imported(s[1], ops'), s[2], s[3]>> : s \in node_groups[gn[2]].sockets}
        /\ ng_parent' = ng_parent \cup {<<n, <<"NodeFrame", ops'>>>> : n \in nodes'}
        /\ ng_keys' = [frames |-> ng_keys.frames \cup {<<<<"NodeFrame", ops'>>, gn[2]>>},
                       group_node |-> gn[1]]
    /\ pc' = "returned"
    /\ exc' = "None"
    /\ status' = "FINISHED"
    /\ UNCHANGED <<node, idx, out_linked, sets, node_groups, group_name>>
    /\ UNCHANGED bendVars
    /\ UNCHANGED selectVars
    /\ UNCHANGED mathVars

\* SvNodeGroupEditDone.execute with the name of a frame of the tree, or
\* with a name the tree does not have.
SvNodeGroupEditDone_execute ==
    /\ node = "group_tools"
    /\ Ready
    /\ ops < MaxOps
    /\ ops' = ops + 1
    /\ operator' = "SvNodeGroupEditDone"
    /\ pc' = "returned"
    /\ exc' = "None"
    /\ \E frame \in {f[1] : f \in ng_keys.frames} \cup {<<"NodeFrame", 0>>} :
        IF frame \notin ng_nodes
        THEN /\ status' = "CANCELLED"
             /\ UNCHANGED <<nodes, ng_nodes, ng_select, ng_links, ng_frozen, ng_sockets,
                            ng_parent, ng_keys, node_groups, group_name>>
        ELSE /\ status' = "FINISHED"
             /\ nodes' = {p[1] : p \in {q \in ng_parent : q[2] = frame}}
             /\ ng_nodes' = ng_nodes \ (nodes' \cup {frame})
             /\ ng_select' = {}
             /\ ng_links' = links_without(ng_links, nodes')
             /\ ng_sockets' = {s \in ng_sockets : s[1] \notin nodes'}
             /\ ng_parent' = {p \in ng_parent : p[1] \notin nodes'}
             /\ ng_frozen' = unfreeze(TRUE)
             /\ \E f \in {g \in ng_keys.frames : g[1] = frame} :
                 /\ ng_keys' = [ng_keys EXCEPT !.frames = @ \ {f}]
                 /\ node_groups' = [node_groups EXCEPT
                        ![f[2]] = create_dict_of_tree(ng_links, ng_sockets, nodes')]
                 /\ group_name' = {g \in group_name : g[1] # ng_keys.group_node}
                                    \cup {<<ng_keys.group_node, f[2]>>}
    /\ UNCHANGED <<node, idx, out_linked, sets>>
    /\ UNCHANGED bendVars
    /\ UNCHANGED selectVars
    /\ UNCHANGED mathVars

----------------------------------------------------------------------------
(* The nodes in a tree *)

InitCommon ==
    /\ pc = "idle"
    /\ idx = 1
    /\ exc = "None"
    /\ sets = 0
    /\ out_linked \in BOOLEAN

\* The node as sv_init leaves it, with no data.
BendIdle ==
    /\ orient_axis_ = "Z"
    /\ autoscale = FALSE
    /\ mode = "SPL"
    /\ vertices_linked = FALSE
    /\ vertices_s = <<>>
    /\ surfaces = <<>>
    /\ result_vertices = <<>>
    /\ out_Vertices = Unset

GroupIdle ==
    /\ ops = 0
    /\ operator = "None"
    /\ status = "None"
    /\ nodes = {}
    /\ ng_nodes = {}
    /\ ng_select = {}
    /\ ng_links = <<>>
    /\ ng_frozen = FALSE
    /\ ng_sockets = {}
    /\ ng_parent = {}
    /\ ng_keys = [frames |-> {}, group_node |-> <<"", 0>>]
    /\ group_name = {}
    /\ node_groups = <<>>

MathIdle ==
    /\ current_op = "CROSS"
    /\ inputs = <<"VerticesSocket", "VerticesSocket">>
    /\ outputs = <<"VerticesSocket">>
    /\ input_one = <<>>
    /\ input_two = [kind |-> "v", data |-> <<>>]
    /\ out_Out = NoData

SelectIdle ==
    /\ element_type = "VERTS"
    /\ criteria_type = "SIDE"
    /\ include_partial = FALSE
    /\ solid_s = <<>>
    /\ direction = <<0, 0, 1>>
    /\ center = <<0, 0, 0>>
    /\ percent = 1
    /\ radius = 1
    /\ jdx = 1
    /\ mask_new = NoMasks
    /\ mask_out = NoMasks
    /\ out_Masks = UnsetMasks

\* An unlinked Vertices socket holds no data.
InitBend ==
    /\ node = "SvBendAlongSurfaceNode"
    /\ InitCommon
    /\ orient_axis_ \in {"X", "Y", "Z"}
    /\ autoscale \in BOOLEAN
    /\ mode \in {"SPL", "LIN"}
    /\ vertices_linked \in BOOLEAN
    /\ vertices_s \in (IF vertices_linked THEN SeqsUpTo(GridPool, MaxBatch) ELSE {<<>>})
    /\ surfaces \in SurfacePool
    /\ result_vertices = <<>>
    /\ out_Vertices = Unset
    /\ SelectIdle
    /\ MathIdle
    /\ GroupIdle

\* A socket that update_sockets hides holds the default of its property.
InitSelect ==
    /\ node = "SvSelectSolidNode"
    /\ InitCommon
    /\ element_type \in {"VERTS", "EDGES", "FACES"}
    /\ criteria_type \in criteria_types
    /\ include_partial \in BOOLEAN
    /\ solid_s \in Nested(SolidPool, MaxBatch) \ {<<>>}
    /\ direction \in (IF criteria_type = "SPHERE" THEN {<<0, 0, 1>>} ELSE DirectionPool)
    /\ center \in (IF criteria_type \in RadiusCriteria THEN CenterPool ELSE {<<0, 0, 0>>})
    /\ percent \in (IF criteria_type \in PercentCriteria THEN PercentPool ELSE {1})
    /\ radius \in (IF criteria_type \in RadiusCriteria THEN RadiusPool ELSE {1})
    /\ jdx = 1
    /\ mask_new = NoMasks
    /\ mask_out = NoMasks
    /\ out_Masks = UnsetMasks
    /\ BendIdle
    /\ MathIdle
    /\ GroupIdle

\* sv_init: inputs A and B and output Out, all VerticesSocket; CROSS is the
\* default of current_op.
InitMath ==
    /\ node = "SvVectorMathNodeMK2"
    /\ InitCommon
    /\ current_op = "CROSS"
    /\ inputs = <<"VerticesSocket", "VerticesSocket">>
    /\ outputs = <<"VerticesSocket">>
    /\ input_one \in OnePool
    /\ \E kind \in {"v", "s"} :
            input_two \in {[kind |-> kind, data |-> d] : d \in TwoPool(kind)}
    /\ out_Out = NoData
    /\ BendIdle
    /\ SelectIdle
    /\ GroupIdle

\* A tree of three nodes, some of them selected, with no group yet.
InitGroup ==
    /\ node = "group_tools"
    /\ InitCommon
    /\ ops = 0
    /\ operator = "None"
    /\ status = "None"
    /\ nodes = {}
    /\ ng_nodes = StartNodes
    /\ ng_select \in SUBSET ng_nodes
    /\ ng_links \in LinksPool
    /\ ng_frozen = FALSE
    /\ ng_sockets = {}
    /\ ng_parent = {}
    /\ ng_keys = [frames |-> {}, group_node |-> <<"", 0>>]
    /\ group_name = {}
    /\ node_groups = <<>>
    /\ BendIdle
    /\ SelectIdle
    /\ MathIdle

Init == InitBend \/ InitSelect \/ InitMath \/ InitGroup

Next ==
    \/ BendProcessBegin
    \/ BendProcessLoop
    \/ BendProcessSet
    \/ SelectProcessBegin
    \/ SelectProcessLoop
    \/ SelectProcessSet
    \/ SelectRadiusUpdate
    \/ VMProcess
    \/ mode_change
    \/ SvNodeGroupCreator_execute
    \/ SvNodeGroupCreator_move
    \/ SvNodeGroupEdit_execute
    \/ SvNodeGroupEditDone_execute

Spec == Init /\ [][Next]_vars

----------------------------------------------------------------------------
(* Properties of SvBendAlongSurfaceNode *)

Bend == node = "SvBendAlongSurfaceNode"

\* 1-based positions of the orientation axis and of the two other axes.
OrientIdx == CASE orient_axis_ = "X" -> 1 [] orient_axis_ = "Y" -> 2 [] orient_axis_ = "Z" -> 3
UIdx == IF orient_axis_ = "X" THEN 2 ELSE 1
VIdx == IF orient_axis_ = "Z" THEN 2 ELSE 3

CoordsOn(g, a) == {Flatten(g)[n][a] : n \in 1..Len(Flatten(g))}

EmptyGrid(g) == Flatten(g) = <<>>
Ragged(g) == \E i \in 1..Len(g), j \in 1..Len(g) : Len(g[i]) # Len(g[j])
Rectangular(g) == ~EmptyGrid(g) /\ ~Ragged(g)
ZeroRange(g) ==
    /\ ~EmptyGrid(g)
    /\ Cardinality(CoordsOn(g, UIdx)) = 1 \/ Cardinality(CoordsOn(g, VIdx)) = 1
ValidGrid(g) == Rectangular(g) /\ ~ZeroRange(g)
ValidSurface(s) == Len(s) >= 2 /\ \A i \in 1..Len(s) : Len(s[i]) = Len(s[1]) /\ Len(s[i]) >= 2

SameShape(a, b) == Len(a) = Len(b) /\ \A i \in 1..Len(a) : Len(a[i]) = Len(b[i])

\* C1: every grid the bend finishes has as many rows as its source grid and,
\* row by row, as many points; a valid source grid on a valid surface grid is
\* never the one an invocation fails on, and a finished invocation writes one
\* output grid per source grid.
C1_OutputShape ==
    Bend =>
        /\ \A k \in 1..Len(result_vertices) : SameShape(result_vertices[k], vertices_s[k])
        /\ \A k \in 1..Len(out_Vertices.data) : SameShape(out_Vertices.data[k], vertices_s[k])
        /\ pc = "raised" => ~(ValidGrid(vertices_s[idx]) /\ ValidSurface(surfaces))
        /\ pc = "done" => out_Vertices.set /\ Len(out_Vertices.data) = Len(vertices_s)

\* An output is written for a batch that holds a valid grid of two rows of two
\* points.
C1_Witness ==
    /\ Bend
    /\ out_Vertices.set
    /\ \E k \in 1..Len(vertices_s) :
          /\ ValidGrid(vertices_s[k])
          /\ Len(vertices_s[k]) = 2
          /\ Len(vertices_s[k][1]) = 2
          /\ Len(out_Vertices.data[k]) = 2

\* C2: a source grid whose points all share their coordinate on the u or on
\* the v axis does not end the invocation in a division by zero.
C2_ZeroRangeRejected ==
    (Bend /\ pc = "raised" /\ ValidSurface(surfaces) /\ ZeroRange(vertices_s[idx]))
        => exc # "ZeroDivisionError"

\* C8: no grid is finished for a source grid that is empty or ragged.
C8_BadGridRejected ==
    Bend => \A k \in 1..Len(result_vertices) :
                ~EmptyGrid(vertices_s[k]) /\ ~Ragged(vertices_s[k])

\* The scenario of C9: the one source point (0.5, 0.5, 2.0), the flat 3x3
\* surface at z = 0, orientation Z, autoscale off.
C9_Scenario ==
    /\ Bend
    /\ out_linked
    /\ vertices_linked
    /\ surfaces = Flat3x3
    /\ vertices_s = << << <<P1>> >> >>
    /\ orient_axis_ = "Z"
    /\ ~autoscale

\* C9 as stated: the invocation of the scenario ends with the one output point
\* (0.5, 0.5, 2.0).
C9_OutputAtSourcePoint ==
    (C9_Scenario /\ pc \in {"done", "raised"}) =>
        out_Vertices =
            [set |-> TRUE,
             data |-> << << << [c \in 1..3 |-> Surd(P1[c], RZero, ROne)] >> >> >>]

\* C9, amended: the invocation of the scenario never finishes and writes no
\* output point.
C9_SinglePointFails ==
    C9_Scenario => /\ pc # "done"
                   /\ ~out_Vertices.set
                   /\ sets = 0
                   /\ result_vertices = <<>>

\* The invocation of the scenario has failed.
C9_Witness == C9_Scenario /\ pc = "raised" /\ idx = 1

\* u or v of point p of grid g: its coordinate on axis a, min-max normalised
\* over the whole grid.
Normalised(g, p, a) ==
    RDiv(RSub(p[a], RMinOf(CoordsOn(g, a))),
         RSub(RMaxOf(CoordsOn(g, a)), RMinOf(CoordsOn(g, a))))

PositionAt(g, p) ==
    spline_eval(build_spline(surfaces), Normalised(g, p, UIdx), Normalised(g, p, VIdx))

OnSpline(g, p) == [c \in 1..3 |-> Surd(PositionAt(g, p)[c], RZero, ROne)]

NormalAt(g, p) ==
    spline_normal(build_spline(surfaces), Normalised(g, p, UIdx), Normalised(g, p, VIdx))

\* sqrt(scale_u * scale_v), each the extent of the surface grid over that of
\* the source grid.
AutoScale(g) ==
    RSqrt(RMul(RDiv(diameter(Flatten(surfaces), UIdx - 1),
                    RSub(RMaxOf(CoordsOn(g, UIdx)), RMinOf(CoordsOn(g, UIdx)))),
               RDiv(diameter(Flatten(surfaces), VIdx - 1),
                    RSub(RMaxOf(CoordsOn(g, VIdx)), RMinOf(CoordsOn(g, VIdx))))))

\* The point C10 gives for source point p of grid g.
Displaced(g, p) ==
    [c \in 1..3 |->
        IF p[OrientIdx] = RZero
        THEN OnSpline(g, p)[c]
        ELSE IF ~autoscale
        THEN Surd(RAdd(PositionAt(g, p)[c], RMul(p[OrientIdx], NormalAt(g, p)[c])),
                  RZero, ROne)
        ELSE Surd(PositionAt(g, p)[c],
                  RMul(RMul(AutoScale(g).coef, p[OrientIdx]), NormalAt(g, p)[c]),
                  AutoScale(g).rad)]

\* C10: every point of a finished grid is the spline position at the (u, v) of
\* its source point plus scale * z * the spline normal there, z being the
\* source coordinate on the orientation axis and scale being 1 without
\* autoscale; a source point with z = 0 lands on the spline position itself.
C10_Displacement ==
    Bend =>
        \A k \in 1..Len(result_vertices) :
            \A i \in 1..Len(result_vertices[k]) :
                \A j \in 1..Len(result_vertices[k][i]) :
                    result_vertices[k][i][j] = Displaced(vertices_s[k], vertices_s[k][i][j])

\* Without autoscale, a grid is finished that holds a point with z = 0 and a
\* point that the normal moves off the surface.
C10_Witness ==
    /\ Bend
    /\ ~autoscale
    /\ out_Vertices.set
    /\ \E k \in 1..Len(result_vertices) :
          \E i \in 1..Len(vertices_s[k]) :
              \E j \in 1..Len(vertices_s[k][i]), l \in 1..Len(vertices_s[k][i]) :
                  /\ vertices_s[k][i][j][OrientIdx] = RZero
                  /\ vertices_s[k][i][l][OrientIdx] # RZero
                  /\ result_vertices[k][i][l] # OnSpline(vertices_s[k], vertices_s[k][i][l])
                  /\ result_vertices[k][i][j] = OnSpline(vertices_s[k], vertices_s[k][i][j])

----------------------------------------------------------------------------
\* The (u, v) pairs of get_uv for source grid g, and its sizes.
UVPairs(g) == Flatten(get_uv(g).result)

InUnit(x) == RLeq(RZero, x) /\ RLeq(x, ROne)

\* On axis a (1-based) and at place c of the pairs (1 for u, 2 for v), get_uv
\* rescales grid g to [0, 1] with the minimum at 0 and the maximum at 1, as an
\* affine map of the coordinate on that axis alone, and returns max - min.
Rescaled(g, a, c, size) ==
    /\ size = RSub(RMaxOf(CoordsOn(g, a)), RMinOf(CoordsOn(g, a)))
    /\ \A n \in 1..Len(Flatten(g)) :
          /\ InUnit(UVPairs(g)[n][c])
          /\ Flatten(g)[n][a] = RMinOf(CoordsOn(g, a)) => UVPairs(g)[n][c] = RZero
          /\ Flatten(g)[n][a] = RMaxOf(CoordsOn(g, a)) => UVPairs(g)[n][c] = ROne
          /\ RAdd(RMul(UVPairs(g)[n][c], size), RMinOf(CoordsOn(g, a))) = Flatten(g)[n][a]

\* C13: for the source grid the loop is at, when its range is not zero on the
\* u and on the v axis, get_uv returns one (u, v) per point in the shape of
\* the grid, each in [0, 1] x [0, 1], 0 at the minimum and 1 at the maximum of
\* an axis, each axis rescaled by its own minimum and size, and the sizes are
\* max - min.
C13_UVNormalised ==
    (Bend /\ pc = "loop" /\ idx <= Len(vertices_s)
          /\ ~EmptyGrid(vertices_s[idx]) /\ ~ZeroRange(vertices_s[idx])) =>
        /\ get_uv(vertices_s[idx]).exc = "None"
        /\ SameShape(get_uv(vertices_s[idx]).result, vertices_s[idx])
        /\ Rescaled(vertices_s[idx], UIdx, 1, get_uv(vertices_s[idx]).size_u)
        /\ Rescaled(vertices_s[idx], VIdx, 2, get_uv(vertices_s[idx]).size_v)

\* The loop is at a grid where some u lies strictly between 0 and 1.
C13_Witness ==
    /\ Bend
    /\ pc = "loop"
    /\ idx <= Len(vertices_s)
    /\ ~EmptyGrid(vertices_s[idx])
    /\ ~ZeroRange(vertices_s[idx])
    /\ \E n \in 1..Len(Flatten(vertices_s[idx])) :
          /\ UVPairs(vertices_s[idx])[n][1] # RZero
          /\ UVPairs(vertices_s[idx])[n][1] # ROne

\* C14: get_other_axes returns (1,2) for X, (0,2) for Y and (0,1) for Z: the
\* two indices other than orient_axis, in increasing order, so the index of z
\* in process is neither the u nor the v index.
C14_OtherAxes ==
    Bend =>
        /\ get_other_axes = (CASE orient_axis_ = "X" -> <<1, 2>>
                               [] orient_axis_ = "Y" -> <<0, 2>>
                               [] orient_axis_ = "Z" -> <<0, 1>>)
        /\ get_other_axes[1] < get_other_axes[2]
        /\ orient_axis \notin {get_other_axes[1], get_other_axes[2]}
        /\ {get_other_axes[1], get_other_axes[2], orient_axis} = {0, 1, 2}

\* process() has written an output with orientation axis Y.
C14_Witness == Bend /\ orient_axis_ = "Y" /\ pc = "done" /\ out_Vertices.data # <<>>

----------------------------------------------------------------------------
(* Properties of SvSelectSolidNode *)

Select == node = "SvSelectSolidNode"

Listed == criteria_type \in known_criteria[element_type]

\* The list of primary masks among the three lists of masks.
Primary(m) ==
    IF element_type = "VERTS" THEN m.v ELSE IF element_type = "EDGES" THEN m.e ELSE m.f

\* C3: a by-side selection with percent = 100 selects every element, and one
\* of vertices with percent = 0 selects exactly the vertices whose projection
\* on the direction is the largest.
C3_SidePercentEnds ==
    (Select /\ criteria_type = "SIDE" /\ pc = "done") =>
        \A i \in 1..Len(solid_s) :
            \A j \in 1..Len(solid_s[i]) :
                /\ percent = 100 =>
                      \A x \in DOMAIN Primary(out_Masks)[i][j] : Primary(out_Masks)[i][j][x]
                /\ (percent = 0 /\ element_type = "VERTS") =>
                      \A x \in solid_s[i][j].Vertexes :
                          out_Masks.v[i][j][x] <=>
                              \A y \in solid_s[i][j].Vertexes :
                                  Dot3(y, direction) <= Dot3(x, direction)

\* a[x] => b[x] for two masks of the same elements.
MaskLeq(a, b) == DOMAIN a = DOMAIN b /\ \A x \in DOMAIN a : a[x] => b[x]

MasksLeq(a, b) ==
    /\ MaskLeq(a.vertex_mask, b.vertex_mask)
    /\ MaskLeq(a.edge_mask, b.edge_mask)
    /\ MaskLeq(a.face_mask, b.face_mask)

\* C4: for a sphere, plane or cylinder criterion and the solid the loop is
\* at, an element that the vertex, edge or face mask selects at the radius
\* of the node is selected at every larger radius, the other inputs being
\* the same.
C4_RadiusMonotonic ==
    (Select /\ criteria_type \in {"SPHERE", "PLANE", "CYLINDER"}
            /\ pc = "loop" /\ idx <= Len(solid_s)) =>
        \A r2 \in RadiusPool :
            radius < r2 =>
                MasksLeq(calc_mask(solid_s[idx][jdx], direction, center, percent, radius),
                         calc_mask(solid_s[idx][jdx], direction, center, percent, r2))

\* process() has run again at a larger radius and its masks differ from the
\* ones the output sockets hold from the run before.
C4_Witness ==
    /\ Select
    /\ criteria_type \in {"SPHERE", "PLANE", "CYLINDER"}
    /\ pc = "loop"
    /\ idx > Len(solid_s)
    /\ out_Masks.set
    /\ Primary(mask_out) # Primary(out_Masks)

EdgeOnFace(e, f) == \A v \in e : v[f[1]] = f[2]

\* The two derived masks are those of incidence with the primary selection.
DerivedByIncidence(vm, em, fm) ==
    CASE element_type = "VERTS" ->
            /\ \A e \in DOMAIN em : em[e] <=> \E v \in DOMAIN vm : vm[v] /\ v \in e
            /\ \A f \in DOMAIN fm : fm[f] <=> \E v \in DOMAIN vm : vm[v] /\ v[f[1]] = f[2]
      [] element_type = "EDGES" ->
            /\ \A v \in DOMAIN vm : vm[v] <=> \E e \in DOMAIN em : em[e] /\ v \in e
            /\ \A f \in DOMAIN fm : fm[f] <=> \E e \in DOMAIN em : em[e] /\ EdgeOnFace(e, f)
      [] element_type = "FACES" ->
            /\ \A v \in DOMAIN vm : vm[v] <=> \E f \in DOMAIN fm : fm[f] /\ v[f[1]] = f[2]
            /\ \A e \in DOMAIN em : em[e] <=> \E f \in DOMAIN fm : fm[f] /\ EdgeOnFace(e, f)

\* C5: in the masks the output sockets hold, the masks of the two categories
\* that are not element_type select exactly the elements incident to at least
\* one selected element of element_type, and each mask has one entry per
\* element of its solid.
C5_DerivedMasks ==
    (Select /\ out_Masks.set) =>
        \A i \in 1..Len(solid_s) :
            \A j \in 1..Len(solid_s[i]) :
                /\ DOMAIN out_Masks.v[i][j] = solid_s[i][j].Vertexes
                /\ DOMAIN out_Masks.e[i][j] = solid_s[i][j].Edges
                /\ DOMAIN out_Masks.f[i][j] = solid_s[i][j].Faces
                /\ DerivedByIncidence(out_Masks.v[i][j], out_Masks.e[i][j], out_Masks.f[i][j])

\* Masks are written where some but not all faces are selected and so some
\* but not all vertices are derived.
C5_Witness ==
    /\ Select
    /\ out_Masks.set
    /\ element_type = "FACES"
    /\ \E i \in 1..Len(solid_s) :
          \E j \in 1..Len(solid_s[i]) :
              /\ \E f \in DOMAIN out_Masks.f[i][j] : out_Masks.f[i][j][f]
              /\ \E v \in DOMAIN out_Masks.v[i][j] : out_Masks.v[i][j][v]
              /\ \E v \in DOMAIN out_Masks.v[i][j] : ~out_Masks.v[i][j][v]
              /\ \E e \in DOMAIN out_Masks.e[i][j] : ~out_Masks.e[i][j][e]

\* The routine known_criteria lists for the pair (element_type, criteria_type).
Routine(topo) ==
    CASE element_type = "VERTS" /\ criteria_type = "SIDE" ->
            _verts_by_side(topo, direction, percent)
      [] element_type = "VERTS" /\ criteria_type = "SPHERE" ->
            _verts_by_sphere(topo, center, radius)
      [] element_type = "VERTS" /\ criteria_type = "PLANE" ->
            _verts_by_plane(topo, center, direction, radius)
      [] element_type = "VERTS" /\ criteria_type = "CYLINDER" ->
            _verts_by_cylinder(topo, center, direction, radius)
      [] element_type = "EDGES" /\ criteria_type = "SIDE" ->
            _edges_by_side(topo, direction, percent)
      [] element_type = "EDGES" /\ criteria_type = "SPHERE" ->
            _edges_by_sphere(topo, center, radius)
      [] element_type = "EDGES" /\ criteria_type = "PLANE" ->
            _edges_by_plane(topo, center, direction, radius)
      [] element_type = "EDGES" /\ criteria_type = "CYLINDER" ->
            _edges_by_cylinder(topo, center, direction, radius)
      [] element_type = "EDGES" /\ criteria_type = "DIRECTION" ->
            _edges_by_direction(topo, direction, percent)
      [] element_type = "FACES" /\ criteria_type = "SIDE" ->
            _faces_by_side(topo, direction, percent)
      [] element_type = "FACES" /\ criteria_type = "NORMAL" ->
            _faces_by_normal(topo, direction, percent)
      [] element_type = "FACES" /\ criteria_type = "SPHERE" ->
            _faces_by_sphere(topo, center, radius)
      [] element_type = "FACES" /\ criteria_type = "PLANE" ->
            _faces_by_plane(topo, center, direction, radius)
      [] element_type = "FACES" /\ criteria_type = "CYLINDER" ->
            _faces_by_cylinder(topo, center, direction, radius)

\* C6: for a pair (element_type, criteria_type) that known_criteria does not
\* list, process() computes no mask and ends in the Exception of calc_mask;
\* that Exception ends process() for no listed pair; and for a listed pair the
\* primary masks a finished run writes are those of the routine of the pair.
C6_Dispatch ==
    Select =>
        /\ ~Listed =>
              /\ pc \notin {"done"}
              /\ ~out_Masks.set
              /\ mask_new = NoMasks /\ mask_out = NoMasks
              /\ pc = "raised" => exc = "Exception"
              /\ (pc = "loop" /\ idx <= Len(solid_s)) =>
                    calc_mask(solid_s[idx][jdx], direction, center, percent, radius).exc
                        = "Exception"
        /\ (pc = "raised" /\ exc = "Exception") => ~Listed
        /\ (Listed /\ pc = "done") =>
              \A i \in 1..Len(solid_s) :
                  \A j \in 1..Len(solid_s[i]) :
                      Primary(out_Masks)[i][j] = Routine(solid_s[i][j]).mask

\* process() has ended in the Exception of calc_mask for a pair that is not
\* listed.
C6_Witness ==
    /\ Select
    /\ ~Listed
    /\ element_type = "VERTS"
    /\ criteria_type = "NORMAL"
    /\ pc = "raised"
    /\ exc = "Exception"

----------------------------------------------------------------------------
\* The solid the loop of process() is at.
AtSolid == pc = "loop" /\ idx <= Len(solid_s)

IMax(S) == CHOOSE a \in S : \A b \in S : b <= a
IMin(S) == CHOOSE a \in S : \A b \in S : a <= b

\* The elements of category element_type of a solid, the sample points of one
\* of them, and the projections of those on the direction.
Elements(topo) ==
    CASE element_type = "VERTS" -> topo.Vertexes
      [] element_type = "EDGES" -> topo.Edges
      [] element_type = "FACES" -> topo.Faces

SamplePoints(topo, x) ==
    CASE element_type = "VERTS" -> {x}
      [] element_type = "EDGES" -> x
      [] element_type = "FACES" -> {v \in topo.Vertexes : v[x[1]] = x[2]}

Projections(topo, x) == {Dot3(p, direction) : p \in SamplePoints(topo, x)}

AllProjections(topo) == UNION {Projections(topo, x) : x \in Elements(topo)}

\* val > max - pct * (max - min) * 0.01 over all projections of the category.
SideAbove(topo, val, pct) ==
    100 * val > 100 * IMax(AllProjections(topo))
                    - pct * (IMax(AllProjections(topo)) - IMin(AllProjections(topo)))

\* C11: for a by-side selection of the edges or faces of the solid the loop is
\* at, with one threshold from the sample values of all elements together, an
\* element is selected iff all of its sample values are strictly above the
\* threshold without include_partial and iff at least one is with it; the
\* selection without include_partial is a subset of the one with it.
C11_SideAnyAll ==
    (Select /\ criteria_type = "SIDE" /\ element_type \in {"EDGES", "FACES"}
            /\ AtSolid /\ Elements(solid_s[idx][jdx]) # {}) =>
        /\ primary_mask(solid_s[idx][jdx], direction, center, percent, radius).exc = "None"
        /\ primary_mask(solid_s[idx][jdx], direction, center, percent, radius).mask =
              [x \in Elements(solid_s[idx][jdx]) |->
                  IF include_partial
                  THEN \E val \in Projections(solid_s[idx][jdx], x) :
                          SideAbove(solid_s[idx][jdx], val, percent)
                  ELSE \A val \in Projections(solid_s[idx][jdx], x) :
                          SideAbove(solid_s[idx][jdx], val, percent)]
        /\ MaskLeq(by_side_of(values_per(solid_s[idx][jdx], Elements(solid_s[idx][jdx]),
                                         direction), percent, FALSE).mask,
                   by_side_of(values_per(solid_s[idx][jdx], Elements(solid_s[idx][jdx]),
                                         direction), percent, TRUE).mask)

\* With include_partial, the masks written select an edge that has a sample
\* value above the threshold and one that is not above it.
C11_Witness ==
    /\ Select
    /\ criteria_type = "SIDE"
    /\ element_type = "EDGES"
    /\ include_partial
    /\ pc = "done"
    /\ \E x \in DOMAIN out_Masks.e[1][1] :
          /\ out_Masks.e[1][1][x]
          /\ \E val \in Projections(solid_s[1][1], x) : ~SideAbove(solid_s[1][1], val, percent)

\* The distance of point p to the center, the plane or the axis line is
\* strictly below r (in integers: squared, or times the length of direction).
InRange(p, r) ==
    CASE criteria_type = "SPHERE" ->
            Dot3(Sub3(p, center), Sub3(p, center)) < r * r
      [] criteria_type = "PLANE" ->
            Abs(Dot3(direction, Sub3(p, center))) < r * norm(direction)
      [] criteria_type = "CYLINDER" ->
            Dot3(Cross3(Sub3(p, center), direction), Cross3(Sub3(p, center), direction))
                < r * r * norm(direction) * norm(direction)

NoneSelected(r) ==
    /\ \A x \in DOMAIN r.vertex_mask : ~r.vertex_mask[x]
    /\ \A x \in DOMAIN r.edge_mask : ~r.edge_mask[x]
    /\ \A x \in DOMAIN r.face_mask : ~r.face_mask[x]

\* C12: for a sphere, plane or cylinder criterion and the solid the loop is
\* at, a vertex is selected iff its distance is strictly below radius, an edge
\* or face iff that holds for all of its sample points (for one of them with
\* include_partial), and radius = 0 selects no element.
C12_StrictlyWithinRadius ==
    (Select /\ criteria_type \in {"SPHERE", "PLANE", "CYLINDER"} /\ AtSolid) =>
        /\ primary_mask(solid_s[idx][jdx], direction, center, percent, radius).exc = "None"
        /\ primary_mask(solid_s[idx][jdx], direction, center, percent, radius).mask =
              [x \in Elements(solid_s[idx][jdx]) |->
                  IF include_partial /\ element_type # "VERTS"
                  THEN \E p \in SamplePoints(solid_s[idx][jdx], x) : InRange(p, radius)
                  ELSE \A p \in SamplePoints(solid_s[idx][jdx], x) : InRange(p, radius)]
        /\ NoneSelected(calc_mask(solid_s[idx][jdx], direction, center, percent, 0))

\* Masks are written for the box at radius 0 with the center on a vertex of
\* it, and they select nothing.
C12_Witness ==
    /\ Select
    /\ criteria_type \in {"SPHERE", "PLANE", "CYLINDER"}
    /\ pc = "done"
    /\ radius = 0
    /\ center = <<0, 0, 0>>
    /\ solid_s[1][1] = Box
    /\ \A x \in Box.Vertexes : ~out_Masks.v[1][1][x]
    /\ \A x \in Box.Edges : ~out_Masks.e[1][1][x]

\* The values calc_mask hands to map_percent for a percent criterion.
PercentValues(topo) ==
    CASE criteria_type = "SIDE" /\ element_type = "VERTS" ->
            {Q(Dot3(p, direction), norm(direction)) : p \in topo.Vertexes}
      [] criteria_type = "SIDE" /\ element_type # "VERTS" ->
            {Q(val, 1) : val \in AllProjections(topo)}
      [] criteria_type = "DIRECTION" ->
            {Q(Abs(Dot3(direction, line_direction(topo, e))), 1) : e \in topo.Edges}
      [] criteria_type = "NORMAL" ->
            {Q(Dot3(direction, plane_normal(topo, f)), 1) : f \in topo.Faces}

ThresholdAt(topo, pct) == map_percent(PercentValues(topo), pct).value

\* C20: for a by-side, by-normal or by-direction criterion and the solid the
\* loop is at, the threshold of map_percent lies within [min, max] and does
\* not grow with percent, every element a mask selects at a percent is
\* selected at every larger percent, and when all values are equal the
\* threshold is that value and no element is selected at any percent.
C20_PercentMonotonic ==
    (Select /\ Listed /\ criteria_type \in {"SIDE", "NORMAL", "DIRECTION"} /\ AtSolid
            /\ PercentValues(solid_s[idx][jdx]) # {}) =>
        /\ \A p \in PercentPool :
              /\ RLeq(RMinOf(PercentValues(solid_s[idx][jdx])), ThresholdAt(solid_s[idx][jdx], p))
              /\ RLeq(ThresholdAt(solid_s[idx][jdx], p), RMaxOf(PercentValues(solid_s[idx][jdx])))
              /\ calc_mask(solid_s[idx][jdx], direction, center, p, radius).exc = "None"
              /\ Cardinality(PercentValues(solid_s[idx][jdx])) = 1 =>
                    /\ {ThresholdAt(solid_s[idx][jdx], p)} = PercentValues(solid_s[idx][jdx])
                    /\ NoneSelected(calc_mask(solid_s[idx][jdx], direction, center, p, radius))
        /\ \A p1 \in PercentPool, p2 \in PercentPool :
              p1 <= p2 =>
                  /\ RLeq(ThresholdAt(solid_s[idx][jdx], p2), ThresholdAt(solid_s[idx][jdx], p1))
                  /\ MasksLeq(calc_mask(solid_s[idx][jdx], direction, center, p1, radius),
                              calc_mask(solid_s[idx][jdx], direction, center, p2, radius))

\* Masks are written for the square, whose vertices all project to the same
\* value on the direction, at percent 100, and they select no vertex.
C20_Witness ==
    /\ Select
    /\ criteria_type = "SIDE"
    /\ element_type = "VERTS"
    /\ pc = "done"
    /\ percent = 100
    /\ direction = <<0, 0, 2>>
    /\ solid_s[1][1] = Square
    /\ \A x \in Square.Vertexes : ~out_Masks.v[1][1][x]

----------------------------------------------------------------------------
(* Properties of SvVectorMathNodeMK2 *)

Math == node = "SvVectorMathNodeMK2"

\* The recursive application of the run of process() that just returned.
Application ==
    recurse_fxy(input_one, input_two.data, current_op, input_two.kind,
                levelsOflist(input_one) - 1)

\* C15: when the output is linked, process() sets the output exactly once
\* and ends without an exception; when the recursive application raised,
\* whatever the exception, the output holds [[]].  An output that is not
\* linked is not set.
C15_ExceptionsSwallowed ==
    (Math /\ pc = "returned") =>
        /\ exc = "None"
        /\ sets = (IF out_linked THEN 1 ELSE 0)
        /\ out_linked =>
            /\ out_Out.set
            /\ Application.exc # "None" => out_Out.data = << <<>> >>
            /\ Application.exc = "None" => out_Out.data = Application.value

\* process() returned after a division by zero, after a call with the
\* wrong number of arguments, and after [-1] of an empty list.
C15_Witness ==
    /\ Math /\ pc = "returned" /\ out_linked
    /\ sets = 1
    /\ out_Out.data = << <<>> >>
    /\ Application.exc = "ZeroDivisionError"

\* C16: the sockets of the node are those of the signature of current_op:
\* as many inputs as letters, each of the type of its letter, and the
\* output of the type of the output letter.
C16_SocketsMatchSignature ==
    Math =>
        /\ Len(inputs) = Len(func_dict[current_op][1])
        /\ \A i \in 1..Min(Len(inputs), Len(func_dict[current_op][1])) :
                inputs[i] = socket_type(func_dict[current_op][1][i])
        /\ outputs = <<socket_type(func_dict[current_op][2])>>

Shorter(a, b) == IF Len(b) < Len(a) THEN b ELSE a

\* The operands at position i of two lists: the element of each list, or
\* past the end of the shorter list its last element.
PairAt(a, b, i) ==
    << IF i <= Len(a) THEN a[i] ELSE Shorter(a, b)[Len(Shorter(a, b))],
       IF i <= Len(b) THEN b[i] ELSE Shorter(a, b)[Len(Shorter(a, b))] >>

NonEmptyLists(d) == d # <<>> /\ \A i \in 1..Len(d) : d[i] # <<>>

\* The operation takes the operands the sockets hold, and no divisor is 0.
Applicable ==
    /\ func_dict[current_op][1] = <<"v", input_two.kind>>
    /\ current_op = "1/SCALAR" =>
            \A i \in 1..Len(input_two.data) :
                \A j \in 1..Len(input_two.data[i]) : input_two.data[i][j] # 0

InnerAt(i, j) ==
    PairAt(PairAt(input_one, input_two.data, i)[1],
           PairAt(input_one, input_two.data, i)[2], j)

\* C17: for lists that are non-empty at both levels the result is as long
\* as the longer list at each level, and the element at (i, j) is the
\* function applied to the operands at (i, j), the last element of the
\* shorter list standing in past its end; the function is applied to the
\* innermost elements only.
C17_FullListMatching ==
    (/\ Math /\ pc = "returned" /\ out_linked
     /\ NonEmptyLists(input_one) /\ NonEmptyLists(input_two.data)
     /\ Applicable) =>
        /\ Len(out_Out.data) = Max(Len(input_one), Len(input_two.data))
        /\ \A i \in 1..Len(out_Out.data) :
            /\ Len(out_Out.data[i]) =
                    Max(Len(PairAt(input_one, input_two.data, i)[1]),
                        Len(PairAt(input_one, input_two.data, i)[2]))
            /\ \A j \in 1..Len(out_Out.data[i]) :
                    out_Out.data[i][j] =
                        func(current_op, InnerAt(i, j)[1], InnerAt(i, j)[2],
                             input_two.kind).value

\* One object of A against two objects of B of different lengths: the
\* second object of the result pairs the last object of A, V1 standing in
\* for its missing second vector.
C17_Witness ==
    /\ Math /\ pc = "returned" /\ out_linked
    /\ current_op = "ADD"
    /\ input_one = << <<V1, V2>> >>
    /\ input_two.data = << <<V2, V1>>, <<V1>> >>
    /\ out_Out.data = << <<<<1, 3, 3>>, <<1, 3, 3>>>>, <<<<2, 0, 4>>, <<1, 3, 3>>>> >>

----------------------------------------------------------------------------
(* Properties of the group operators *)

Group == node = "group_tools"

\* C18: when an operator has ended, by a return or by an exception, the
\* tree is not frozen: what the operator froze it has unfrozen.
C18_NeverLeftFrozen ==
    (Group /\ pc \in {"returned", "raised"}) => ~ng_frozen

\* The links of the tree that enter and that leave the selection.
Entering == {k \in DOMAIN ng_links :
                ng_links[k].to_node \in ng_select /\ ng_links[k].from_node \notin ng_select}
Leaving == {k \in DOMAIN ng_links :
                ng_links[k].from_node \in ng_select /\ ng_links[k].to_node \notin ng_select}

SocketsOf(n, side) == {s \in ng_sockets' : s[1] = n /\ s[2] = side}
LinksFrom(n) == {j \in DOMAIN ng_links' : ng_links'[j].from_node = n}
LinksTo(n) == {j \in DOMAIN ng_links' : ng_links'[j].to_node = n}

\* The step of SvNodeGroupCreator.execute that makes the group node: a
\* socket of the group node for each link of the boundary, no link of the
\* boundary left, and for each of them a link between its outside socket
\* and the group node and a link between its inside socket and the group
\* input or group output node.
Rewires ==
    pc' = "rewired" =>
        /\ ng_nodes' \ ng_nodes = {group_node(ops'), group_in(ops'), group_out(ops')}
        /\ Cardinality(SocketsOf(group_node(ops'), "in")) = Cardinality(Entering)
        /\ Cardinality(SocketsOf(group_node(ops'), "out")) = Cardinality(Leaving)
        /\ \A k \in Entering \cup Leaving :
                \A j \in DOMAIN ng_links' : ng_links'[j] # ng_links[k]
        /\ Cardinality(LinksTo(group_node(ops'))) = Cardinality(Entering)
        /\ Cardinality(LinksFrom(group_in(ops'))) = Cardinality(Entering)
        /\ \A k \in Entering :
            /\ \E j \in LinksTo(group_node(ops')) :
                /\ ng_links'[j].from_node = ng_links[k].from_node
                /\ ng_links'[j].from_socket = ng_links[k].from_socket
            /\ \E j \in LinksFrom(group_in(ops')) :
                /\ ng_links'[j].to_node = ng_links[k].to_node
                /\ ng_links'[j].to_socket = ng_links[k].to_socket
        /\ Cardinality(LinksFrom(group_node(ops'))) = Cardinality(Leaving)
        /\ Cardinality(LinksTo(group_out(ops'))) = Cardinality(Leaving)
        /\ \A k \in Leaving :
            /\ \E j \in LinksFrom(group_node(ops')) :
                /\ ng_links'[j].to_node = ng_links[k].to_node
                /\ ng_links'[j].to_socket = ng_links[k].to_socket
            /\ \E j \in LinksTo(group_out(ops')) :
                /\ ng_links'[j].from_node = ng_links[k].from_node
                /\ ng_links'[j].from_socket = ng_links[k].from_socket

\* The step that ends SvNodeGroupCreator.execute: the nodes selected at
\* the start and the group input and output nodes are gone, the group node
\* is there.
Moves ==
    pc = "rewired" =>
        /\ status' = "FINISHED"
        /\ nodes # {}
        /\ ng_nodes' = ng_nodes \ (nodes \cup {group_in(ops), group_out(ops)})
        /\ group_node(ops) \in ng_nodes'
        /\ Len(node_groups') = Len(node_groups) + 1

\* SvNodeGroupCreator.execute with nothing selected.
Cancels ==
    (operator' = "SvNodeGroupCreator" /\ ops' # ops /\ ng_select = {}) =>
        /\ status' = "CANCELLED"
        /\ UNCHANGED <<ng_nodes, ng_links, ng_sockets, node_groups>>

\* SvNodeGroupCreator.execute with a selection that is not empty.
GroupFromSelection == [][Group => (Rewires /\ Moves)]_vars

\* C19: with nodes selected SvNodeGroupCreator.execute gives the group
\* node one input socket for each link entering the selection and one
\* output socket for each link leaving it, replaces each of these links by
\* a link between the outside socket and the group node and a link between
\* the inside socket and the group input or output node, and then removes
\* the selected nodes and the group input and output nodes, the group node
\* staying; with nothing selected it returns CANCELLED and makes no node,
\* socket, link or node group.
C19_GroupCreated == [][Group => (Rewires /\ Moves /\ Cancels)]_vars

----------------------------------------------------------------------------
(* Properties of both nodes *)

FullBatch(m) == Len(m) = Len(solid_s) /\ \A i \in 1..Len(m) : Len(m[i]) = Len(solid_s[i])

\* C7: in either node a run of process() that an exception ends has called
\* sv_set on no output socket; sv_set is called only by a run that finished
\* its loop, and what the output sockets hold covers the whole batch.
C7_NoPartialResults ==
    /\ Bend =>
          /\ pc = "raised" => sets = 0 /\ ~out_Vertices.set
          /\ sets > 0 => pc = "done" /\ sets = 1
          /\ out_Vertices.set =>
                pc = "done" /\ Len(out_Vertices.data) = Len(vertices_s)
    /\ Select =>
          /\ pc = "raised" => sets = 0
          /\ sets > 0 => pc = "done" /\ sets = 3
          /\ out_Masks.set =>
                FullBatch(out_Masks.v) /\ FullBatch(out_Masks.e) /\ FullBatch(out_Masks.f)

\* calc_mask has failed on the second solid of a batch after the masks of the
\* first one were appended.
C7_Witness ==
    /\ Select
    /\ pc = "raised"
    /\ sets = 0
    /\ idx = 2 \/ jdx = 2
    /\ mask_out.v # <<>> \/ mask_new.v # <<>>

============================================================================
